---- MODULE Spec2Model ----
(***************************************************************************)
(* A model of the string-rewriting engine (src/src/rewriting/engine.py),   *)
(* the configuration-graph builder and SCC/attractor analysis              *)
(* (src/src/graph/builder.py, src/src/graph/scc.py) and the macro lifting  *)
(* pipeline (src/src/semantic_lift/macro_system.py).                       *)
(*                                                                         *)
(* A Symbol is modelled by its value (a one-character string), a String by *)
(* the sequence of its symbols, a Rule by the record of its left and right *)
(* Strings.  Python positions are 0-based and are kept 0-based here.       *)
(* An Optional value is a sequence of length at most one: <<>> is None.    *)
(***************************************************************************)
EXTENDS Integers, Sequences, FiniteSets, TLC

VARIABLES
    rules,        \* RewritingEngine.rules: the ordered rule list
    start,        \* the string argument of the engine call
    call,         \* the method called last and its other arguments
    ret,          \* the value that call returned
    alphabet,     \* GraphBuilder.alphabet
    graph,        \* the Graph: its vertices and its adjacency lists (edges)
    tarjan,       \* the fields of the TarjanSCC object
    L,            \* the length parameter L of the pipeline
    candidates,   \* all_candidates: the patterns proposed for lifting
    cand,         \* the loop index i of the candidate being processed
    macro,        \* the Macro built for that candidate
    pc,           \* the stage that candidate has reached
    is_confluent, \* the result of LocalConfluenceChecker.check
    is_bisimilar, \* the result of BoundedBisimulation.check
    dictionary,   \* the MacroDictionary: macros, version, history
    verified_count,
    failed_count,
    n_adds,       \* the number of add_macro calls made so far
    automaton,    \* the AhoCorasick object: its nodes and its patterns
    ruleset,      \* the RuleSet: rules, rules_by_left, rules_by_id
    threads       \* the position of each concurrent add_macro call

engineVars == <<rules, start, alphabet>>

graphVars == <<graph, tarjan>>

macroVars == <<L, candidates, cand, macro, pc, is_confluent, is_bisimilar,
               dictionary, verified_count, failed_count, n_adds>>

objectVars == <<automaton, ruleset, threads>>

vars == <<rules, start, call, ret, alphabet, graph, tarjan, L, candidates, cand,
          macro, pc, is_confluent, is_bisimilar, dictionary, verified_count,
          failed_count, n_adds, automaton, ruleset, threads>>

(***************************************************************************)
(* Bounds of the model.                                                    *)
(***************************************************************************)
MaxLen == 3       \* longest input string
MaxDepth == 3     \* largest depth argument
MaxGraphLen == 3  \* largest max_length of build_graph
MaxEdges == 4     \* most edges of a graph built edge by edge
MaxL == 3         \* largest length parameter L of the pipeline
MaxCandidates == 2 \* most candidates handed to the pipeline
MaxMacros == 2    \* most add_macro calls on one dictionary
MaxCheckDepth == 3 \* largest depth handed to a check called on its own
MaxSteps == 4      \* largest max_steps argument below the default
MaxPatterns == 4   \* most add_pattern calls on one automaton
MaxTextLen == 3    \* longest text searched, the worked example apart
MaxM == 3          \* largest locality parameter m
MaxRules == 3      \* most rules handed to the overlap detector
MaxSetRules == 3   \* most rules a RuleSet holds at once
MaxThreads == 2    \* concurrent add_macro calls on one dictionary
MemoryLimit == 1024 \* longest list of symbols the interpreter can allocate

Min(a, b) == IF a <= b THEN a ELSE b

\* Python's seq[a:b] for 0 <= a and 0 <= b (indices past the end are clamped).
Slice(s, a, b) == SubSeq(s, a + 1, Min(b, Len(s)))

\* Python's seq[a:]
SliceFrom(s, a) == SubSeq(s, a + 1, Len(s))

\* String.from_str for the strings used below
Str0 == <<"0">>
Str00 == <<"0", "0">>
Str000 == <<"0", "0", "0">>
Str0b == <<"0", "|">>
Strb0 == <<"|", "0">>
Str0b0 == <<"0", "|", "0">>

Rule(l, r) == [left |-> l, right |-> r]

None == <<>>
Some(x) == <<x>>

(***************************************************************************)
(* RewritingEngine                                                         *)
(***************************************************************************)

\* for i in range(n - m + 1): if string[i:i+m] == pattern: positions.append(i)
RECURSIVE find_positions_loop(_, _, _, _)
find_positions_loop(string, pattern, i, positions) ==
    IF i >= Len(string) - Len(pattern) + 1
    THEN positions
    ELSE find_positions_loop(string, pattern, i + 1,
            IF Slice(string, i, i + Len(pattern)) = pattern
            THEN Append(positions, i)
            ELSE positions)

\* find_positions resuming after the end of a match (no overlapping matches)
find_positions_skip(string, pattern) ==
    LET RECURSIVE scan(_, _)
        scan(i, positions) ==
            IF i >= Len(string) - Len(pattern) + 1
            THEN positions
            ELSE IF Slice(string, i, i + Len(pattern)) = pattern
                 THEN scan(i + (IF pattern = <<>> THEN 1 ELSE Len(pattern)),
                           Append(positions, i))
                 ELSE scan(i + 1, positions)
    IN scan(0, <<>>)

find_positions(string, pattern) ==
    find_positions_loop(string, pattern, 0, <<>>)

\* apply_rule that does not drop the matched left-hand side
apply_rule_keep_left(string, rule, position) ==
    Slice(string, 0, position) \o rule.right \o SliceFrom(string, position)

apply_rule(string, rule, position) ==
    Slice(string, 0, position) \o rule.right
        \o SliceFrom(string, position + Len(rule.left))

\* the inner loop of all_applications: for pos in positions
RECURSIVE applications_of_rule(_, _, _, _)
applications_of_rule(string, rule, positions, k) ==
    IF k > Len(positions)
    THEN <<>>
    ELSE <<[string |-> apply_rule(string, rule, positions[k]),
            rule |-> rule,
            pos |-> positions[k]]>>
         \o applications_of_rule(string, rule, positions, k + 1)

\* the outer loop of all_applications: for rule in self.rules
RECURSIVE all_applications_loop(_, _, _)
all_applications_loop(rs, string, i) ==
    IF i > Len(rs)
    THEN <<>>
    ELSE applications_of_rule(string, rs[i], find_positions(string, rs[i].left), 1)
         \o all_applications_loop(rs, string, i + 1)

\* all_applications keeping only the first application
all_applications_first_only(rs, string) ==
    LET all == all_applications_loop(rs, string, 1)
    IN IF all = <<>> THEN <<>> ELSE <<all[1]>>

all_applications(rs, string) == all_applications_loop(rs, string, 1)

\* applications[:width] when width is not None and len(applications) > width
limit_width(applications, width) ==
    IF width # None /\ Len(applications) > width[1]
    THEN Slice(applications, 0, width[1])
    ELSE applications

\* bounded_reach's loop body with levels[next_level] created before the
\* visited test
RECURSIVE bounded_reach_visit_eager(_, _, _, _)
bounded_reach_visit_eager(applications, k, level, st) ==
    IF k > Len(applications)
    THEN st
    ELSE LET new_string == applications[k].string
             next_level == level + 1
             levels1 == IF next_level \in DOMAIN st.levels
                        THEN st.levels
                        ELSE st.levels @@ (next_level :> {})
         IN bounded_reach_visit_eager(applications, k + 1, level,
                IF new_string \notin st.visited
                THEN [visited |-> st.visited \union {new_string},
                      levels |-> [levels1 EXCEPT ![next_level] = @ \union {new_string}],
                      queue |-> Append(st.queue, <<new_string, next_level>>)]
                ELSE [st EXCEPT !.levels = levels1])

\* for new_string, rule, pos in applications: (body of bounded_reach's loop)
RECURSIVE bounded_reach_visit(_, _, _, _)
bounded_reach_visit(applications, k, level, st) ==
    IF k > Len(applications)
    THEN st
    ELSE LET new_string == applications[k].string
             next_level == level + 1
             levels1 == IF next_level \in DOMAIN st.levels
                        THEN st.levels
                        ELSE st.levels @@ (next_level :> {})
         IN bounded_reach_visit(applications, k + 1, level,
                IF new_string \notin st.visited
                THEN [visited |-> st.visited \union {new_string},
                      levels |-> [levels1 EXCEPT ![next_level] = @ \union {new_string}],
                      queue |-> Append(st.queue, <<new_string, next_level>>)]
                ELSE st)

\* while queue: current, level = queue.popleft() ...
RECURSIVE bounded_reach_loop(_, _, _, _)
bounded_reach_loop(rs, depth, width, st) ==
    IF st.queue = <<>>
    THEN st.levels
    ELSE LET current == Head(st.queue)[1]
             level == Head(st.queue)[2]
             popped == [st EXCEPT !.queue = Tail(st.queue)]
         IN IF level >= depth
            THEN bounded_reach_loop(rs, depth, width, popped)
            ELSE bounded_reach_loop(rs, depth, width,
                    bounded_reach_visit(
                        limit_width(all_applications(rs, current), width),
                        1, level, popped))

bounded_reach(rs, s, depth, width) ==
    bounded_reach_loop(rs, depth, width,
        [levels |-> (0 :> {s}), visited |-> {s}, queue |-> <<<<s, 0>>>>])


\* reachable's loop body queueing the parent's path instead of
\* path + [new_string]
RECURSIVE reachable_visit_stale_path(_, _, _, _, _, _)
reachable_visit_stale_path(applications, k, target, path, level, st) ==
    IF k > Len(applications)
    THEN st
    ELSE LET new_string == applications[k].string
         IN IF new_string = target
            THEN [st EXCEPT !.found = Some(Append(path, new_string))]
            ELSE reachable_visit_stale_path(applications, k + 1, target, path, level,
                    IF new_string \notin st.visited
                    THEN [st EXCEPT
                            !.visited = @ \union {new_string},
                            !.queue = Append(@, <<new_string, path, level + 1>>)]
                    ELSE st)

\* for new_string, rule, pos in applications: (body of reachable's loop);
\* the loop ends early, with the path, when new_string == target
RECURSIVE reachable_visit(_, _, _, _, _, _)
reachable_visit(applications, k, target, path, level, st) ==
    IF k > Len(applications)
    THEN st
    ELSE LET new_string == applications[k].string
         IN IF new_string = target
            THEN [st EXCEPT !.found = Some(Append(path, new_string))]
            ELSE reachable_visit(applications, k + 1, target, path, level,
                    IF new_string \notin st.visited
                    THEN [st EXCEPT
                            !.visited = @ \union {new_string},
                            !.queue = Append(@, <<new_string,
                                                  Append(path, new_string),
                                                  level + 1>>)]
                    ELSE st)

\* a cutoff that lets reachable expand the strings of the last level
depth_exhausted_late(level, depth) == level > depth

\* if level >= depth: continue (reachable)
depth_exhausted(level, depth) == level >= depth

\* while queue: current, path, level = queue.popleft() ...
RECURSIVE reachable_loop(_, _, _, _, _)
reachable_loop(rs, target, depth, width, st) ==
    IF st.found # None
    THEN st.found
    ELSE IF st.queue = <<>>
    THEN None
    ELSE LET current == Head(st.queue)[1]
             path == Head(st.queue)[2]
             level == Head(st.queue)[3]
             popped == [st EXCEPT !.queue = Tail(st.queue)]
         IN IF depth_exhausted(level, depth)
            THEN reachable_loop(rs, target, depth, width, popped)
            ELSE reachable_loop(rs, target, depth, width,
                    reachable_visit(
                        limit_width(all_applications(rs, current), width),
                        1, target, path, level, popped))

reachable(rs, s, target, depth, width) ==
    IF s = target
    THEN Some(<<s>>)
    ELSE reachable_loop(rs, target, depth, width,
            [found |-> None, visited |-> {s}, queue |-> <<<<s, <<s>>, 0>>>>])


(***************************************************************************)
(* Graph and GraphBuilder                                                  *)
(***************************************************************************)
Range(f) == {f[x] : x \in DOMAIN f}

EmptyDict == [x \in {} |-> {}]

\* Graph(vertices=set(), edges={})
EmptyGraph == [vertices |-> {}, edges |-> EmptyDict]

add_vertex(g, v) ==
    [vertices |-> g.vertices \union {v},
     edges |-> IF v \notin DOMAIN g.edges
               THEN g.edges @@ (v :> <<>>)
               ELSE g.edges]

add_edge(g, u, v) ==
    LET g2 == add_vertex(add_vertex(g, u), v)
    IN IF v \notin Range(g2.edges[u])
       THEN [g2 EXCEPT !.edges[u] = Append(@, v)]
       ELSE g2

\* self.edges.get(v, [])
get_neighbors(g, v) == IF v \in DOMAIN g.edges THEN g.edges[v] ELSE <<>>

num_edges(g) ==
    LET RECURSIVE total(_)
        total(S) == IF S = {} THEN 0
                    ELSE LET v == CHOOSE x \in S : TRUE
                         IN Len(g.edges[v]) + total(S \ {v})
    IN total(DOMAIN g.edges)

\* generate_rec(current, length) inside generate_strings, as the set of the
\* strings it adds
RECURSIVE generate_rec(_, _, _, _)
generate_rec(alph, max_length, current, length) ==
    IF length > max_length
    THEN {}
    ELSE {current} \union
         (IF length = max_length
          THEN {}
          ELSE UNION {generate_rec(alph, max_length, Append(current, symbol), length + 1)
                        : symbol \in alph})

generate_strings(alph, max_length) ==
    {<<>>} \union generate_rec(alph, max_length, <<>>, 0)

\* for v in vertices: graph.add_vertex(v)
\* (the result does not depend on the order in which the set is iterated)
RECURSIVE add_vertices(_, _)
add_vertices(g, S) ==
    IF S = {} THEN g
    ELSE LET v == CHOOSE x \in S : TRUE
         IN add_vertices(add_vertex(g, v), S \ {v})

\* if len(new_string) <= max_length
within_bound_strict(new_string, max_length) == Len(new_string) < max_length

within_bound(new_string, max_length) == Len(new_string) <= max_length

\* for new_string, rule, pos in applications: (build_graph)
RECURSIVE build_graph_edges_of(_, _, _, _, _)
build_graph_edges_of(g, vertex, applications, k, max_length) ==
    IF k > Len(applications) THEN g
    ELSE build_graph_edges_of(
            IF within_bound(applications[k].string, max_length)
            THEN add_edge(g, vertex, applications[k].string)
            ELSE g,
            vertex, applications, k + 1, max_length)

\* for vertex in vertices: (build_graph); st holds the graph and the
\* vertices still to come
RECURSIVE build_graph_edges(_, _, _)
build_graph_edges(rs, st, max_length) ==
    IF st.todo = {} THEN st.graph
    ELSE LET vertex == CHOOSE x \in st.todo : TRUE
         IN build_graph_edges(rs,
                [graph |-> build_graph_edges_of(st.graph, vertex,
                                all_applications(rs, vertex), 1, max_length),
                 todo |-> st.todo \ {vertex}],
                max_length)

\* (the graph does not depend on the order in which the set is iterated)
build_graph(rs, alph, max_length) ==
    LET vertices == generate_strings(alph, max_length)
    IN build_graph_edges(rs,
            [graph |-> add_vertices(EmptyGraph, vertices), todo |-> vertices],
            max_length)

\* engine.py is loaded twice: builder.py puts src/src on sys.path and imports
\* rewriting, so the builder's engine makes rewriting.engine.String values,
\* while a caller that imports src.rewriting hands in src.rewriting.engine
\* String values.  A graph vertex of build_incremental is the class of the
\* String with its symbols; String.__eq__ (isinstance(other, String) and
\* self.symbols == other.symbols) is the equality of these records, and the
\* hash (of the symbols alone) never tells two unequal vertices apart.
BuilderString == "rewriting.engine.String"

CallerString == "src.rewriting.engine.String"

\* return String(new_symbols), in the engine the builder owns
engine_string(symbols) == [cls |-> BuilderString, symbols |-> symbols]

\* for new_string, rule, pos in applications: (build_incremental)
RECURSIVE build_incremental_visit(_, _, _, _, _)
build_incremental_visit(applications, k, current, level, st) ==
    IF k > Len(applications) THEN st
    ELSE LET new_string == engine_string(applications[k].string)
             g1 == add_edge(st.graph, current, new_string)
         IN build_incremental_visit(applications, k + 1, current, level,
                IF new_string \notin st.visited
                THEN [graph |-> add_vertex(g1, new_string),
                      visited |-> st.visited \union {new_string},
                      queue |-> Append(st.queue, <<new_string, level + 1>>)]
                ELSE [st EXCEPT !.graph = g1])

\* if level >= depth: continue
at_cutoff(level, depth) == level >= depth

\* while queue: current, level = queue.popleft() ... (build_incremental)
RECURSIVE build_incremental_loop(_, _, _)
build_incremental_loop(rs, depth, st) ==
    IF st.queue = <<>> THEN st.graph
    ELSE LET current == Head(st.queue)[1]
             level == Head(st.queue)[2]
             popped == [st EXCEPT !.queue = Tail(@)]
         IN IF at_cutoff(level, depth)
            THEN build_incremental_loop(rs, depth, popped)
            ELSE build_incremental_loop(rs, depth,
                    build_incremental_visit(all_applications(rs, current.symbols), 1,
                                            current, level, popped))

\* deque((s, 0) for s in start_strings)
RECURSIVE seed_queue(_)
seed_queue(S) ==
    IF S = {} THEN <<>>
    ELSE LET x == CHOOSE y \in S : TRUE
         IN <<<<x, 0>>>> \o seed_queue(S \ {x})

\* (the graph does not depend on the order in which the seeds are iterated)
build_incremental(rs, start_strings, depth) ==
    build_incremental_loop(rs, depth,
        [graph |-> add_vertices(EmptyGraph, start_strings),
         visited |-> start_strings,
         queue |-> seed_queue(start_strings)])

(***************************************************************************)
(* TarjanSCC                                                               *)
(***************************************************************************)
SCC(nodes) == [nodes |-> nodes, is_attractor |-> FALSE]

\* TarjanSCC.__init__
TarjanNew ==
    [index_counter |-> 0, stack |-> <<>>, on_stack |-> {},
     index |-> EmptyDict, lowlink |-> EmptyDict, components |-> <<>>]

\* while True: w = self.stack.pop() ... if w == v: break
RECURSIVE pop_component(_, _, _)
pop_component(v, t, component_nodes) ==
    LET w == t.stack[Len(t.stack)]
        t1 == [t EXCEPT !.stack = SubSeq(@, 1, Len(@) - 1),
                        !.on_stack = @ \ {w}]
        nodes1 == component_nodes \union {w}
    IN IF w = v
       THEN [t1 EXCEPT !.components = Append(@, SCC(nodes1))]
       ELSE pop_component(v, t1, nodes1)

RECURSIVE strongconnect(_, _, _)
RECURSIVE strongconnect_neighbors(_, _, _, _, _)

\* the neighbour loop of _strongconnect with the on_stack test dropped
RECURSIVE strongconnect_neighbors_any_visited(_, _, _, _, _)
strongconnect_neighbors_any_visited(g, v, ws, k, t) ==
    IF k > Len(ws) THEN t
    ELSE LET w == ws[k]
         IN strongconnect_neighbors_any_visited(g, v, ws, k + 1,
                IF w \notin DOMAIN t.index
                THEN LET t1 == strongconnect(g, w, t)
                     IN [t1 EXCEPT !.lowlink[v] = Min(@, t1.lowlink[w])]
                ELSE [t EXCEPT !.lowlink[v] = Min(@, t.index[w])])

\* for w in self.graph.get_neighbors(v):
strongconnect_neighbors(g, v, ws, k, t) ==
    IF k > Len(ws) THEN t
    ELSE LET w == ws[k]
         IN strongconnect_neighbors(g, v, ws, k + 1,
                IF w \notin DOMAIN t.index
                THEN LET t1 == strongconnect(g, w, t)
                     IN [t1 EXCEPT !.lowlink[v] = Min(@, t1.lowlink[w])]
                ELSE IF w \in t.on_stack
                THEN [t EXCEPT !.lowlink[v] = Min(@, t.index[w])]
                ELSE t)

\* _strongconnect(v)
strongconnect(g, v, t) ==
    LET t1 == [t EXCEPT !.index = @ @@ (v :> t.index_counter),
                        !.lowlink = @ @@ (v :> t.index_counter),
                        !.index_counter = @ + 1,
                        !.stack = Append(@, v),
                        !.on_stack = @ \union {v}]
        t2 == strongconnect_neighbors(g, v, get_neighbors(g, v), 1, t1)
    IN IF t2.lowlink[v] = t2.index[v]
       THEN pop_component(v, t2, {})
       ELSE t2

\* for vertex in self.graph.vertices: if vertex not in self.index: ...
\* order is the order in which the vertex set is iterated
RECURSIVE find_sccs_roots(_, _, _, _)
find_sccs_roots(g, order, k, t) ==
    IF k > Len(order) THEN t
    ELSE find_sccs_roots(g, order, k + 1,
            IF order[k] \notin DOMAIN t.index
            THEN strongconnect(g, order[k], t)
            ELSE t)

\* for neighbor in neighbors: if neighbor not in component.nodes: ... break
RECURSIVE neighbors_inside(_, _, _)
neighbors_inside(neighbors, k, nodes) ==
    IF k > Len(neighbors) THEN TRUE
    ELSE IF neighbors[k] \notin nodes THEN FALSE
    ELSE neighbors_inside(neighbors, k + 1, nodes)

\* the node loop of _identify_attractors leaving after its first node
nodes_inside_first_only(g, remaining, nodes) ==
    IF remaining = {} THEN TRUE
    ELSE LET node == CHOOSE x \in remaining : TRUE
         IN neighbors_inside(get_neighbors(g, node), 1, nodes)

\* for node in component.nodes: ... if not is_attractor: break
\* (the flag does not depend on the order in which the set is iterated)
RECURSIVE nodes_inside(_, _, _)
nodes_inside(g, remaining, nodes) ==
    IF remaining = {} THEN TRUE
    ELSE LET node == CHOOSE x \in remaining : TRUE
         IN IF ~neighbors_inside(get_neighbors(g, node), 1, nodes)
            THEN FALSE
            ELSE nodes_inside(g, remaining \ {node}, nodes)

\* _identify_attractors
identify_attractors(g, t) ==
    [t EXCEPT !.components =
        [i \in 1..Len(t.components) |->
            [nodes |-> t.components[i].nodes,
             is_attractor |-> nodes_inside(g, t.components[i].nodes,
                                              t.components[i].nodes)]]]

find_sccs(g, t, order) ==
    identify_attractors(g, find_sccs_roots(g, order, 1, t))

(***************************************************************************)
(* AttractorAnalyzer                                                       *)
(***************************************************************************)

\* for neighbor in self.graph.get_neighbors(vertex): reverse_edges[neighbor].append(vertex)
RECURSIVE reverse_edges_of(_, _, _, _)
reverse_edges_of(rev, vertex, neighbors, k) ==
    IF k > Len(neighbors) THEN rev
    ELSE LET neighbor == neighbors[k]
             rev1 == IF neighbor \notin DOMAIN rev
                     THEN rev @@ (neighbor :> <<>>)
                     ELSE rev
         IN reverse_edges_of([rev1 EXCEPT ![neighbor] = Append(@, vertex)],
                             vertex, neighbors, k + 1)

\* for vertex in self.graph.vertices: (building the reverse graph)
RECURSIVE reverse_edges(_, _, _)
reverse_edges(g, S, rev) ==
    IF S = {} THEN rev
    ELSE LET vertex == CHOOSE x \in S : TRUE
         IN reverse_edges(g, S \ {vertex},
                reverse_edges_of(rev, vertex, get_neighbors(g, vertex), 1))

\* deque(attractor.nodes)
RECURSIVE deque_of(_)
deque_of(S) ==
    IF S = {} THEN <<>>
    ELSE LET x == CHOOSE y \in S : TRUE
         IN <<x>> \o deque_of(S \ {x})

\* for pred in predecessors: (find_basin)
RECURSIVE find_basin_preds(_, _, _)
find_basin_preds(predecessors, k, st) ==
    IF k > Len(predecessors) THEN st
    ELSE LET pred == predecessors[k]
         IN find_basin_preds(predecessors, k + 1,
                IF pred \notin st.visited
                THEN [visited |-> st.visited \union {pred},
                      basin |-> st.basin \union {pred},
                      queue |-> Append(st.queue, pred)]
                ELSE st)

\* while queue: current = queue.popleft() ...
RECURSIVE find_basin_loop(_, _)
find_basin_loop(rev, st) ==
    IF st.queue = <<>> THEN st.basin
    ELSE LET current == Head(st.queue)
             predecessors == IF current \in DOMAIN rev THEN rev[current] ELSE <<>>
         IN find_basin_loop(rev,
                find_basin_preds(predecessors, 1, [st EXCEPT !.queue = Tail(@)]))

\* find_basin stopping at the direct predecessors of the attractor
find_basin_one_step(g, attractor) ==
    attractor.nodes \union
        {u \in g.vertices : Range(get_neighbors(g, u)) \cap attractor.nodes # {}}

\* (the basin does not depend on the order in which the sets are iterated)
find_basin(g, attractor) ==
    find_basin_loop(reverse_edges(g, g.vertices, EmptyDict),
        [basin |-> attractor.nodes,
         visited |-> attractor.nodes,
         queue |-> deque_of(attractor.nodes)])


\* the attractors without the first of them
analyzer_attractors_skip_first(sccs, k) ==
    LET attractors == SelectSeq(sccs, LAMBDA scc : scc.is_attractor)
    IN IF attractors = <<>> THEN <<>> ELSE Tail(attractors)

\* self.attractors = [scc for scc in sccs if scc.is_attractor]
RECURSIVE analyzer_attractors(_, _)
analyzer_attractors(sccs, k) ==
    IF k > Len(sccs) THEN <<>>
    ELSE (IF sccs[k].is_attractor THEN <<sccs[k]>> ELSE <<>>)
         \o analyzer_attractors(sccs, k + 1)

\* the inner loop without its break: the last attractor whose basin holds
\* the vertex is kept
RECURSIVE classify_vertex_last(_, _, _, _)
classify_vertex_last(g, attractors, k, vertex) ==
    IF k > Len(attractors) THEN None
    ELSE LET later == classify_vertex_last(g, attractors, k + 1, vertex)
         IN IF later # None THEN later
            ELSE IF vertex \in find_basin(g, attractors[k])
            THEN Some(attractors[k])
            ELSE None

\* for attractor in self.attractors: ... break; None when not assigned
RECURSIVE classify_vertex(_, _, _, _)
classify_vertex(g, attractors, k, vertex) ==
    IF k > Len(attractors) THEN None
    ELSE IF vertex \in find_basin(g, attractors[k])
    THEN Some(attractors[k])
    ELSE classify_vertex(g, attractors, k + 1, vertex)

\* AttractorAnalyzer(graph, sccs).classify_vertices()
classify_vertices(g, sccs) ==
    [vertex \in g.vertices |->
        classify_vertex(g, analyzer_attractors(sccs, 1), 1, vertex)]


(***************************************************************************)
(* Macro, MacroDictionary                                                  *)
(***************************************************************************)

\* Macro(symbol, definition, rules_add) with verified = False
\* (the metadata map, which holds floating point statistics, is left out)
Macro(symbol, definition, rules_add) ==
    [symbol |-> symbol, definition |-> definition,
     rules_add |-> rules_add, verified |-> FALSE]

\* Macro.__str__: f"{self.symbol} := {self.definition} {verified_mark}"
\* (the check mark, character U+2713, is written "U+2713")
macro_str(m) ==
    <<m.symbol, " ", ":", "=", " ">> \o m.definition
        \o <<" ", IF m.verified THEN "U+2713" ELSE "?">>

\* MacroDictionary()
NewDictionary == [macros |-> <<>>, version |-> 1, history |-> <<>>]

\* add_macro recording the history entry before the version is incremented
add_macro_stale_version(d, m) ==
    [macros |-> Append(d.macros, m),
     version |-> d.version + 1,
     history |-> Append(d.history,
                    [version |-> d.version, action |-> "add",
                     macro |-> macro_str(m), symbol |-> m.symbol])]

\* MacroDictionary.add_macro
add_macro(d, m) ==
    [macros |-> Append(d.macros, m),
     version |-> d.version + 1,
     history |-> Append(d.history,
                    [version |-> d.version + 1, action |-> "add",
                     macro |-> macro_str(m), symbol |-> m.symbol])]

\* MacroDictionary.expand: max_iterations = 100
MaxIterations == 100

\* the inner loop with the else branch lost: a symbol that is not the
\* macro's symbol is skipped
expand_symbol_no_else(sym, m) ==
    IF sym = m.symbol THEN m.definition ELSE <<>>

\* one turn of for sym in current.symbols: what is added to new_symbols
expand_symbol(sym, m) ==
    IF sym = m.symbol THEN m.definition ELSE <<sym>>

RECURSIVE expand_symbols(_,_,_,_)
\* for sym in current.symbols: new_symbols after the turns lo..hi, in order
\* (the turns are independent of one another: the list is put together by
\* halves)
expand_symbols(symbols, lo, hi, m) ==
    IF lo > hi THEN <<>>
    ELSE IF lo = hi THEN expand_symbol(symbols[lo], m)
    ELSE LET mid == (lo + hi) \div 2
         IN expand_symbols(symbols, lo, mid, m) \o expand_symbols(symbols, mid + 1, hi, m)

\* changed = True is executed in some turn of the inner loop
expand_changed(symbols, m) == \E k \in 1..Len(symbols) : symbols[k] = m.symbol

RECURSIVE expand_macros(_,_,_)
\* for macro in self.macros: st holds current, changed and raised.  The list
\* new_symbols is built in memory: a list longer than MemoryLimit cannot be
\* allocated and the interpreter raises MemoryError.
expand_macros(macros, k, st) ==
    IF k > Len(macros) \/ st.raised THEN st
    ELSE LET new_symbols == expand_symbols(st.current, 1, Len(st.current), macros[k])
         IN expand_macros(macros, k + 1,
                IF Len(new_symbols) > MemoryLimit
                THEN [st EXCEPT !.raised = TRUE]
                ELSE [st EXCEPT !.current = new_symbols,
                                !.changed = @ \/ expand_changed(st.current, macros[k])])

RECURSIVE expand_loop(_,_)
\* while changed and iteration < max_iterations
expand_loop(macros, st) ==
    IF st.raised \/ ~(st.changed /\ st.iteration < MaxIterations) THEN st
    ELSE expand_loop(macros,
             expand_macros(macros, 1,
                 [st EXCEPT !.changed = FALSE, !.iteration = @ + 1]))

\* the locals of expand when it returns or raises
expand_run(d, string) ==
    expand_loop(d.macros,
        [current |-> string, changed |-> TRUE, iteration |-> 0, raised |-> FALSE])

\* MacroDictionary.expand: the string returned
expand(d, string) == expand_run(d, string).current

(***************************************************************************)
(* LocalConfluenceChecker                                                  *)
(***************************************************************************)
SearchDepth == 3        \* search_depth=3 at the pipeline's call
ConfluenceWidth == 50   \* width=50
CriticalLimit == 20     \* test_strings[:20]

\* for rule2 in rules: pairs.append(rule1.left + rule2.left)
RECURSIVE critical_concats_of(_, _, _)
critical_concats_of(rs, rule1, j) ==
    IF j > Len(rs) THEN <<>>
    ELSE <<rule1.left \o rs[j].left>> \o critical_concats_of(rs, rule1, j + 1)

\* for rule1 in rules:
RECURSIVE critical_concats(_, _)
critical_concats(rs, i) ==
    IF i > Len(rs) THEN <<>>
    ELSE critical_concats_of(rs, rs[i], 1) \o critical_concats(rs, i + 1)

\* _generate_critical_pairs
generate_critical_pairs(rs) ==
    critical_concats(rs, 1) \o [i \in 1..Len(rs) |-> rs[i].left]

\* all_reach = set(); for level_strings in reach.values(): all_reach.update(...)
all_reach(levels) == UNION {levels[k] : k \in DOMAIN levels}

\* the loop body comparing the first application with the last one
confluence_test_first_last(rs, test_string, search_depth) ==
    LET applications == all_applications(rs, test_string)
    IN IF Len(applications) < 2 THEN TRUE
       ELSE LET result1 == applications[1].string
                result2 == applications[Len(applications)].string
            IN IF result1 = result2 THEN TRUE
               ELSE all_reach(bounded_reach(rs, result1, search_depth,
                                            Some(ConfluenceWidth)))
                    \cap all_reach(bounded_reach(rs, result2, search_depth,
                                                 Some(ConfluenceWidth))) # {}

\* the body of check's loop for one test string: TRUE when the loop goes on,
\* FALSE when it returns False
confluence_test(rs, test_string, search_depth) ==
    LET applications == all_applications(rs, test_string)
    IN IF Len(applications) < 2 THEN TRUE
       ELSE LET result1 == applications[1].string
                result2 == applications[2].string
            IN IF result1 = result2 THEN TRUE
               ELSE all_reach(bounded_reach(rs, result1, search_depth,
                                            Some(ConfluenceWidth)))
                    \cap all_reach(bounded_reach(rs, result2, search_depth,
                                                 Some(ConfluenceWidth))) # {}

\* for test_string in test_strings[:20]:
RECURSIVE confluence_loop(_, _, _, _)
confluence_loop(rs, test_strings, k, search_depth) ==
    IF k > Len(test_strings) THEN TRUE
    ELSE IF ~confluence_test(rs, test_strings[k], search_depth) THEN FALSE
    ELSE confluence_loop(rs, test_strings, k + 1, search_depth)

\* LocalConfluenceChecker.check
confluence_check(original_rules, new_macro, search_depth) ==
    LET all_rules == original_rules \o new_macro.rules_add
    IN confluence_loop(all_rules,
            Slice(generate_critical_pairs(all_rules), 0, CriticalLimit),
            1, search_depth)

(***************************************************************************)
(* BoundedBisimulation                                                     *)
(***************************************************************************)
MaxBisimDepth == 3      \* max_depth=3 at the pipeline's call
BisimWidth == 30        \* width=30
BisimLimit == 10        \* test_strings[:10]
TestLengthCap == 6      \* range(1, min(max_length + 1, 6))

\* "0" * n
Zeros(n) == [j \in 1..n |-> "0"]

\* "0|" * n
ZeroBars(n) == [j \in 1..(2 * n) |-> IF j % 2 = 1 THEN "0" ELSE "|"]

\* for length in range(1, min(max_length + 1, 6)):
RECURSIVE generate_test_strings_loop(_, _)
generate_test_strings_loop(length, stop) ==
    IF length >= stop THEN <<>>
    ELSE <<Zeros(length)>>
         \o (IF length >= 2
             THEN <<Slice(ZeroBars(length \div 2), 0, length)>>
             ELSE <<>>)
         \o generate_test_strings_loop(length + 1, stop)

\* _generate_test_strings
generate_test_strings(max_length) ==
    generate_test_strings_loop(1, Min(max_length + 1, TestLengthCap))

SymmetricDifference(A, B) == (A \ B) \union (B \ A)

\* the comparison with >= in place of >
diverged_at_least_half(final_old, final_new) ==
    2 * Cardinality(SymmetricDifference(final_old, final_new))
        >= Cardinality(final_old)

\* len(final_old.symmetric_difference(final_new)) > len(final_old) * 0.5
diverged(final_old, final_new) ==
    2 * Cardinality(SymmetricDifference(final_old, final_new))
        > Cardinality(final_old)

\* the deepest level present taken in place of reach.get(max_depth, set())
final_level_deepest(reach, max_depth) ==
    LET present == {k \in DOMAIN reach : k <= max_depth}
    IN IF present = {} THEN {}
       ELSE reach[CHOOSE k \in present : \A j \in present : j <= k]

\* reach.get(max_depth, set())
final_level(reach, max_depth) ==
    IF max_depth \in DOMAIN reach THEN reach[max_depth] ELSE {}

\* for test_string in test_strings[:10]:
RECURSIVE bisimulation_loop(_, _, _, _, _)
bisimulation_loop(rules_old, rules_new, test_strings, k, max_depth) ==
    IF k > Len(test_strings) THEN TRUE
    ELSE IF diverged(
                final_level(bounded_reach(rules_old, test_strings[k], max_depth,
                                          Some(BisimWidth)), max_depth),
                final_level(bounded_reach(rules_new, test_strings[k], max_depth,
                                          Some(BisimWidth)), max_depth))
    THEN FALSE
    ELSE bisimulation_loop(rules_old, rules_new, test_strings, k + 1, max_depth)

\* BoundedBisimulation.check
bisimulation_check(original_rules, new_macro, max_length, max_depth) ==
    bisimulation_loop(original_rules, original_rules \o new_macro.rules_add,
        Slice(generate_test_strings(max_length), 0, BisimLimit), 1, max_depth)

(***************************************************************************)
(* RewritingEngine.omega_limit                                             *)
(***************************************************************************)
DefaultMaxSteps == 1000   \* max_steps: int = 1000
OmegaWindow == 100        \* window = min(100, len(visited))

\* visited.index(current): the 0-based position of the first occurrence
list_index(visited, current) ==
    (CHOOSE k \in 1..Len(visited) :
        /\ visited[k] = current
        /\ \A j \in 1..(k - 1) : visited[j] # current) - 1

\* visited[-window:], which is the whole list when window is 0
last_window(visited, window) ==
    IF window = 0 THEN visited
    ELSE SubSeq(visited, Len(visited) - window + 1, Len(visited))

\* the cycle taken from the start of visited instead of from cycle_start
omega_cycle_whole(visited, current) == Range(visited)

\* cycle_start = visited.index(current); set(visited[cycle_start:])
omega_cycle(visited, current) ==
    Range(SliceFrom(visited, list_index(visited, current)))

\* a terminal state answered by the empty set
omega_terminal_empty(current) == {}

\* return {current}
omega_terminal(current) == {current}

\* for step in range(max_steps): st.returned is the value of a return
\* statement executed inside the loop, None while the loop runs
RECURSIVE omega_limit_loop(_, _, _)
omega_limit_loop(rs, max_steps, st) ==
    IF st.returned # None \/ st.step >= max_steps
    THEN st
    ELSE LET visited == Append(st.visited, st.current)
             applications == all_applications(rs, st.current)
         IN IF applications = <<>>
            THEN [st EXCEPT !.visited = visited,
                            !.returned = Some(omega_terminal(st.current))]
            ELSE LET current == applications[1].string
                 IN IF \E k \in 1..Len(visited) : visited[k] = current
                    THEN [st EXCEPT !.visited = visited,
                                    !.current = current,
                                    !.returned = Some(omega_cycle(visited, current))]
                    ELSE omega_limit_loop(rs, max_steps,
                             [visited |-> visited, current |-> current,
                              step |-> st.step + 1, returned |-> None])

\* RewritingEngine.omega_limit
omega_limit(rs, string, max_steps) ==
    LET st == omega_limit_loop(rs, max_steps,
                  [visited |-> <<>>, current |-> string,
                   step |-> 0, returned |-> None])
    IN IF st.returned # None
       THEN st.returned[1]
       ELSE Range(last_window(st.visited, Min(OmegaWindow, Len(st.visited))))

(***************************************************************************)
(* AhoCorasick (src/src/overlap/ac_automaton.py)                           *)
(*                                                                         *)
(* The nodes are kept in a sequence in the order of their creation; a node *)
(* is referred to by its position, the root is node 1, and a fail link of  *)
(* 0 is None.  A node's children map a character to a node; a dict is      *)
(* iterated in insertion order, which is the order of the child positions. *)
(***************************************************************************)
Root == 1

\* ACNode(depth=depth)
ACNode(depth) ==
    [children |-> EmptyDict, fail |-> 0, output |-> <<>>, depth |-> depth]

\* AhoCorasick.__init__
NewAutomaton == [nodes |-> <<ACNode(0)>>, patterns |-> <<>>, built |-> FALSE]

\* ACNode.has_child
has_child(node, char) == char \in DOMAIN node.children

\* for i, char in enumerate(pattern): (add_pattern); st holds the nodes and
\* the position of current
RECURSIVE add_pattern_walk(_, _, _)
add_pattern_walk(pattern, i, st) ==
    IF i > Len(pattern) THEN st
    ELSE LET char == pattern[i]
             current == st.nodes[st.current]
         IN IF ~has_child(current, char)
            THEN LET new_node == Len(st.nodes) + 1
                 IN add_pattern_walk(pattern, i + 1,
                        [nodes |-> Append(
                            [st.nodes EXCEPT ![st.current].children =
                                                @ @@ (char :> new_node)],
                            ACNode(current.depth + 1)),
                         current |-> new_node])
            ELSE add_pattern_walk(pattern, i + 1,
                        [st EXCEPT !.current = current.children[char]])

\* AhoCorasick.add_pattern
add_pattern(a, pattern) ==
    IF pattern = <<>> THEN a
    ELSE LET st == add_pattern_walk(pattern, 1,
                        [nodes |-> a.nodes, current |-> Root])
         IN [a EXCEPT !.patterns = Append(@, pattern),
                      !.nodes = [st.nodes EXCEPT ![st.current].output =
                                                    Append(@, pattern)]]

\* node.children.items(): the (char, child) pairs in insertion order
RECURSIVE items_from(_, _)
items_from(children, k) ==
    IF \A char \in DOMAIN children : children[char] < k THEN <<>>
    ELSE IF \E char \in DOMAIN children : children[char] = k
    THEN <<<<CHOOSE char \in DOMAIN children : children[char] = k, k>>>>
         \o items_from(children, k + 1)
    ELSE items_from(children, k + 1)

items(children) == items_from(children, 1)

\* while fail_node is not None and not fail_node.has_child(char):
\*     fail_node = fail_node.fail
RECURSIVE follow_fail(_, _, _)
follow_fail(nodes, fail_node, char) ==
    IF fail_node # 0 /\ ~has_child(nodes[fail_node], char)
    THEN follow_fail(nodes, nodes[fail_node].fail, char)
    ELSE fail_node

\* a build that leaves out the outputs of the failure link
inherit_output_none(output, fail_output) == output

\* if child.fail.output: child.output.extend(child.fail.output)
inherit_output(output, fail_output) == output \o fail_output

\* for char, child in current.children.items(): (the BFS of build)
RECURSIVE build_children(_, _, _, _)
build_children(pairs, k, current, st) ==
    IF k > Len(pairs) THEN st
    ELSE LET char == pairs[k][1]
             child == pairs[k][2]
             fail_node == follow_fail(st.nodes, st.nodes[current].fail, char)
             fail == IF fail_node = 0 THEN Root
                     ELSE st.nodes[fail_node].children[char]
         IN build_children(pairs, k + 1, current,
                [nodes |-> [st.nodes EXCEPT
                              ![child].fail = fail,
                              ![child].output =
                                  inherit_output(@, st.nodes[fail].output)],
                 queue |-> Append(st.queue, child)])

\* while queue: current = queue.popleft() ... (build)
RECURSIVE build_loop(_)
build_loop(st) ==
    IF st.queue = <<>> THEN st.nodes
    ELSE LET current == Head(st.queue)
         IN build_loop(build_children(items(st.nodes[current].children), 1,
                           current, [st EXCEPT !.queue = Tail(@)]))

\* for char, child in self.root.children.items(): child.fail = self.root
RECURSIVE build_root_children(_, _, _)
build_root_children(pairs, k, st) ==
    IF k > Len(pairs) THEN st
    ELSE build_root_children(pairs, k + 1,
            [nodes |-> [st.nodes EXCEPT ![pairs[k][2]].fail = Root],
             queue |-> Append(st.queue, pairs[k][2])])

\* AhoCorasick.build
build(a) ==
    [a EXCEPT !.built = TRUE,
              !.nodes = build_loop(build_root_children(
                            items(a.nodes[Root].children), 1,
                            [nodes |-> a.nodes, queue |-> <<>>]))]

\* the == of the ACNode dataclass: the fields children, fail, output and
\* depth compared in this order, a node being equal to itself
RECURSIVE node_eq(_, _, _)
node_eq(nodes, a, b) ==
    \/ a = b
    \/ /\ DOMAIN nodes[a].children = DOMAIN nodes[b].children
       /\ \A char \in DOMAIN nodes[a].children :
            node_eq(nodes, nodes[a].children[char], nodes[b].children[char])
       /\ \/ nodes[a].fail = nodes[b].fail
          \/ /\ nodes[a].fail # 0
             /\ nodes[b].fail # 0
             /\ node_eq(nodes, nodes[a].fail, nodes[b].fail)
       /\ nodes[a].output = nodes[b].output
       /\ nodes[a].depth = nodes[b].depth

\* while current != self.root and not current.has_child(char):
\*     current = current.fail
RECURSIVE search_fail(_, _, _)
search_fail(nodes, current, char) ==
    IF ~node_eq(nodes, current, Root) /\ ~has_child(nodes[current], char)
    THEN search_fail(nodes, nodes[current].fail, char)
    ELSE current

\* for pattern in current.output: results.append((i, pattern))
hits(i, output) == [k \in 1..Len(output) |-> <<i, output[k]>>]

\* for i, char in enumerate(text): (search); i is 0-based
RECURSIVE search_loop(_, _, _, _)
search_loop(nodes, text, i, st) ==
    IF i >= Len(text) THEN st.results
    ELSE LET char == text[i + 1]
             failed == search_fail(nodes, st.current, char)
             current == IF has_child(nodes[failed], char)
                        THEN nodes[failed].children[char]
                        ELSE failed
         IN search_loop(nodes, text, i + 1,
                [current |-> current,
                 results |-> st.results \o hits(i, nodes[current].output)])

\* AhoCorasick.search
search(a, text) ==
    search_loop(a.nodes, text, 0, [current |-> Root, results |-> <<>>])

\* for end_pos, pattern in matches: (find_all_positions)
RECURSIVE positions_loop(_, _, _)
positions_loop(matches, k, positions) ==
    IF k > Len(matches) THEN positions
    ELSE LET end_pos == matches[k][1]
             pattern == matches[k][2]
             start_pos == end_pos - Len(pattern) + 1
         IN positions_loop(matches, k + 1,
                IF pattern \in DOMAIN positions
                THEN [positions EXCEPT ![pattern] = Append(@, start_pos)]
                ELSE positions)

\* AhoCorasick.find_all_positions
find_all_positions(a, text) ==
    positions_loop(search(a, text), 1, [p \in Range(a.patterns) |-> <<>>])

(***************************************************************************)
(* String.get_blocks and Rule equality                                     *)
(* (src/src/rewriting/engine.py and src/src/core/types.py)                 *)
(***************************************************************************)
\* for sym in self.symbols: (engine.py get_blocks); st.raised is set by
\* raise ValueError
RECURSIVE get_blocks_loop(_, _, _)
get_blocks_loop(symbols, k, st) ==
    IF k > Len(symbols) \/ st.raised THEN st
    ELSE get_blocks_loop(symbols, k + 1,
            IF symbols[k] = "0"
            THEN [st EXCEPT !.count = @ + 1]
            ELSE IF symbols[k] = "|"
            THEN IF st.count > 0
                 THEN [st EXCEPT !.blocks = Append(@, st.count), !.count = 0]
                 ELSE st
            ELSE [st EXCEPT !.raised = TRUE])

\* String.get_blocks of engine.py: the blocks, and whether it raised
get_blocks(string) ==
    LET st == get_blocks_loop(string, 1,
                  [blocks |-> <<>>, count |-> 0, raised |-> FALSE])
    IN IF st.raised THEN st
       ELSE IF st.count > 0
       THEN [st EXCEPT !.blocks = Append(@, st.count)]
       ELSE st

\* for char in self.content: (types.py get_blocks)
RECURSIVE core_get_blocks_loop(_, _, _)
core_get_blocks_loop(content, k, st) ==
    IF k > Len(content) THEN st
    ELSE core_get_blocks_loop(content, k + 1,
            IF content[k] = "0"
            THEN [st EXCEPT !.current_block_len = @ + 1]
            ELSE IF content[k] = "|"
            THEN [blocks |-> Append(st.blocks, st.current_block_len),
                  current_block_len |-> 0]
            ELSE st)

\* String.get_blocks of types.py, on a string whose cache is empty
core_get_blocks(content) ==
    LET st == core_get_blocks_loop(content, 1,
                  [blocks |-> <<>>, current_block_len |-> 0])
    IN IF \/ st.current_block_len > 0
          \/ (content # <<>> /\ content[Len(content)] # "|")
       THEN Append(st.blocks, st.current_block_len)
       ELSE st.blocks

\* Rule(left, right, metadata) of engine.py
EngineRule(left, right, metadata) ==
    [left |-> left, right |-> right, metadata |-> metadata]

\* the == the dataclass generates for the Rule of engine.py: the tuples of
\* the fields left, right, metadata are compared
rule_eq(a, b) ==
    <<a.left, a.right, a.metadata>> = <<b.left, b.right, b.metadata>>

\* hash((self.left, self.right)), as the value that is hashed
rule_hash(a) == <<a.left, a.right>>

\* Rule(left, right, rule_id, metadata) of types.py, after __post_init__:
\* a rule_id of None becomes f"{left.content}U+2192{right.content}"
CoreRule(left, right, rule_id, metadata) ==
    [left |-> left, right |-> right,
     rule_id |-> IF rule_id = None THEN left \o <<"U+2192">> \o right
                 ELSE rule_id[1],
     metadata |-> metadata]

\* the == the dataclass generates for the Rule of types.py: the tuples of
\* the fields left, right, rule_id, metadata are compared
core_rule_eq(a, b) ==
    <<a.left, a.right, a.rule_id, a.metadata>>
        = <<b.left, b.right, b.rule_id, b.metadata>>

(***************************************************************************)
(* OverlapDetector                                                         *)
(***************************************************************************)
\* str(rule.left): the values of the symbols joined; every symbol value is
\* one character
str_of(string) == [k \in 1..Len(string) |-> string[k]]

\* s1[-length:], for 1 <= length <= len(s1)
suffix(s1, length) == SubSeq(s1, Len(s1) - length + 1, Len(s1))

\* for length in range(max_overlap, 0, -1):
RECURSIVE overlap_scan(_, _, _)
overlap_scan(s1, s2, length) ==
    IF length < 1 THEN None
    ELSE IF suffix(s1, length) = Slice(s2, 0, length)
    THEN Some([pattern1 |-> s1, pattern2 |-> s2,
               overlap_length |-> length,
               overlap_string |-> suffix(s1, length)])
    ELSE overlap_scan(s1, s2, length - 1)

\* the shortest overlap returned in place of the longest
find_suffix_prefix_overlap_shortest(s1, s2) ==
    LET lengths == {length \in 1..Min(Len(s1), Len(s2)) :
                      suffix(s1, length) = Slice(s2, 0, length)}
    IN IF lengths = {} THEN None
       ELSE LET length == CHOOSE x \in lengths : \A y \in lengths : x <= y
            IN Some([pattern1 |-> s1, pattern2 |-> s2,
                     overlap_length |-> length,
                     overlap_string |-> suffix(s1, length)])

\* OverlapDetector.find_suffix_prefix_overlap
find_suffix_prefix_overlap(s1, s2) ==
    overlap_scan(s1, s2, Min(Len(s1), Len(s2)))

\* for j, p2 in enumerate(patterns): (find_all_overlaps)
RECURSIVE find_all_overlaps_inner(_, _, _, _)
find_all_overlaps_inner(patterns, i, j, min_length) ==
    IF j > Len(patterns) THEN <<>>
    ELSE LET overlap == IF i # j
                        THEN find_suffix_prefix_overlap(patterns[i], patterns[j])
                        ELSE None
         IN (IF overlap # None /\ overlap[1].overlap_length >= min_length
             THEN overlap ELSE <<>>)
            \o find_all_overlaps_inner(patterns, i, j + 1, min_length)

\* for i, p1 in enumerate(patterns): (find_all_overlaps)
RECURSIVE find_all_overlaps_outer(_, _, _)
find_all_overlaps_outer(patterns, i, min_length) ==
    IF i > Len(patterns) THEN <<>>
    ELSE find_all_overlaps_inner(patterns, i, 1, min_length)
         \o find_all_overlaps_outer(patterns, i + 1, min_length)

DefaultMinLength == 1   \* min_length: int = 1

\* OverlapDetector.find_all_overlaps
find_all_overlaps(patterns, min_length) ==
    find_all_overlaps_outer(patterns, 1, min_length)

\* left_parts = [str(rule.left) for rule in rules]
left_parts(rs) == [k \in 1..Len(rs) |-> str_of(rs[k].left)]

\* OverlapDetector.check_m_locality
check_m_locality(rs, m) ==
    LET overlaps == find_all_overlaps(left_parts(rs), DefaultMinLength)
    IN ~\E k \in 1..Len(overlaps) : overlaps[k].overlap_length > m

\* OverlapDetector.get_max_overlap
get_max_overlap(rs) ==
    LET overlaps == find_all_overlaps(left_parts(rs), DefaultMinLength)
    IN IF overlaps = <<>> THEN 0
       ELSE CHOOSE n \in {overlaps[k].overlap_length : k \in 1..Len(overlaps)} :
                \A k \in 1..Len(overlaps) : overlaps[k].overlap_length <= n

(***************************************************************************)
(* The objects no operation of a specification touches                     *)
(***************************************************************************)
\* RuleSet.__init__
NewRuleSet == [rules |-> <<>>, rules_by_left |-> EmptyDict, rules_by_id |-> EmptyDict]

\* no add_macro call is in progress
NoThreads == <<>>

NoObjects ==
    /\ automaton = NewAutomaton
    /\ ruleset = NewRuleSet
    /\ threads = NoThreads

(***************************************************************************)
(* Inputs                                                                  *)
(***************************************************************************)
Alphabet == {"0", "|"}

StringsUpTo(n) == UNION {[1..k -> Alphabet] : k \in 0..n}

RuleLists ==
    { <<Rule(Str00, Str0), Rule(Str0b0, Str00)>>,     \* engine.py demo
      <<Rule(Str00, Str0b), Rule(Str0b, Str00)>>,     \* the 2-cycle 00 <-> 0|
      <<Rule(Str00, Str0), Rule(Str0, Str00)>>,       \* test_bounded_reach
      <<Rule(Str00, Str0b), Rule(Str00, Strb0)>>,     \* test_nondeterminism
      <<Rule(Str00, Str0), Rule(Str0b, Strb0)>>,      \* builder.py demo
      <<>> }

Widths == {None, Some(0), Some(1), Some(2), Some(10)}


\* the pipeline before it has started
PipelineIdle ==
    /\ cand = 0
    /\ macro = None
    /\ pc = "start"
    /\ is_confluent = FALSE
    /\ is_bisimilar = FALSE
    /\ dictionary = NewDictionary
    /\ verified_count = 0
    /\ failed_count = 0
    /\ n_adds = 0

NoPipeline ==
    /\ L = 0
    /\ candidates = <<>>
    /\ PipelineIdle

EngineInit ==
    /\ rules \in RuleLists
    /\ start \in StringsUpTo(MaxLen)
    /\ call = [op |-> "init"]
    /\ ret = None
    /\ alphabet = Alphabet
    /\ graph = EmptyGraph
    /\ tarjan = TarjanNew
    /\ NoObjects
    /\ NoPipeline

CallFindPositions ==
    /\ call.op = "init"
    /\ \E pattern \in StringsUpTo(MaxLen) :
        /\ call' = [op |-> "find_positions", pattern |-> pattern]
        /\ ret' = find_positions(start, pattern)
    /\ UNCHANGED <<objectVars, engineVars, graphVars, macroVars>>

CallAllApplications ==
    /\ call.op = "init"
    /\ call' = [op |-> "all_applications"]
    /\ ret' = all_applications(rules, start)
    /\ UNCHANGED <<objectVars, engineVars, graphVars, macroVars>>

CallBoundedReach ==
    /\ call.op = "init"
    /\ \E depth \in 0..MaxDepth, width \in Widths :
        /\ call' = [op |-> "bounded_reach", depth |-> depth, width |-> width]
        /\ ret' = bounded_reach(rules, start, depth, width)
    /\ UNCHANGED <<objectVars, engineVars, graphVars, macroVars>>

CallReachable ==
    /\ call.op = "init"
    /\ \E target \in StringsUpTo(MaxLen), depth \in 0..MaxDepth, width \in Widths :
        /\ call' = [op |-> "reachable", target |-> target,
                                        depth |-> depth, width |-> width]
        /\ ret' = reachable(rules, start, target, depth, width)
    /\ UNCHANGED <<objectVars, engineVars, graphVars, macroVars>>

StepBudgets == (0..MaxSteps) \union {DefaultMaxSteps}

CallOmegaLimit ==
    /\ call.op = "init"
    /\ \E max_steps \in StepBudgets :
        /\ call' = [op |-> "omega_limit", max_steps |-> max_steps]
        /\ ret' = omega_limit(rules, start, max_steps)
    /\ UNCHANGED <<objectVars, engineVars, graphVars, macroVars>>

EngineNext ==
    \/ CallFindPositions
    \/ CallAllApplications
    \/ CallBoundedReach
    \/ CallReachable
    \/ CallOmegaLimit

SpecEngine == EngineInit /\ [][EngineNext]_vars

(***************************************************************************)
(* The one-step rewrite relation, stated directly from the rule list.      *)
(***************************************************************************)

\* left occurs in s at the 0-based position p
OccursAt(s, left, p) ==
    /\ p + Len(left) <= Len(s)
    /\ \A j \in 1..Len(left) : s[p + j] = left[j]

\* the (rule index, position) pairs at which a rule applies to s
Matches(rs, s) ==
    {m \in (1..Len(rs)) \X (0..Len(s)) : OccursAt(s, rs[m[1]].left, m[2])}

\* s[:p] + right + s[p+len(left):]
Splice(s, rule, p) ==
    [j \in 1..(Len(s) - Len(rule.left) + Len(rule.right)) |->
        IF j <= p THEN s[j]
        ELSE IF j <= p + Len(rule.right) THEN rule.right[j - p]
        ELSE s[j - Len(rule.right) + Len(rule.left)]]

Successors(rs, s) == {Splice(s, rs[m[1]], m[2]) : m \in Matches(rs, s)}

\* m1 comes before m2 by rule index, then by position
Before(m1, m2) == m1[1] < m2[1] \/ (m1[1] = m2[1] /\ m1[2] < m2[2])

\* the strings at rewrite distance at most k from s
RECURSIVE Ball(_, _, _)
Ball(rs, s, k) ==
    IF k <= 0
    THEN IF k = 0 THEN {s} ELSE {}
    ELSE LET B == Ball(rs, s, k - 1)
         IN B \union UNION {Successors(rs, x) : x \in B}

LevelAt(levels, k) == IF k \in DOMAIN levels THEN levels[k] ELSE {}

(***************************************************************************)
(* Claims about the rewriting engine                                       *)
(***************************************************************************)

\* C1: all_applications(s) holds exactly one entry per (rule index, position)
\* match, ordered by rule index and then position, duplicates of a result
\* string kept, each entry being s[:p] + right + s[p+len(left):] of length
\* len(s) - len(left) + len(right).
C1_AllApplications ==
    call.op = "all_applications" =>
        LET M == Matches(rules, start)
            Rank(m) == Cardinality({x \in M : Before(x, m)}) + 1
        IN /\ Len(ret) = Cardinality(M)
           /\ \A m \in M :
                /\ ret[Rank(m)] = [string |-> Splice(start, rules[m[1]], m[2]),
                                   rule |-> rules[m[1]],
                                   pos |-> m[2]]
                /\ Len(ret[Rank(m)].string) =
                     Len(start) - Len(rules[m[1]].left) + Len(rules[m[1]].right)

\* two overlapping matches of one rule give the same string, both are listed
C1_Witness ==
    /\ call.op = "all_applications"
    /\ \E a, b \in 1..Len(ret) :
        /\ a < b
        /\ ret[a].rule = ret[b].rule
        /\ ret[b].pos - ret[a].pos < Len(ret[a].rule.left)
        /\ ret[a].string = ret[b].string

\* C2: find_positions(string, pattern) is the ascending, duplicate-free list
\* of exactly the indices where pattern occurs in string, overlapping
\* occurrences included, and is empty when pattern is longer than string.
C2_FindPositions ==
    call.op = "find_positions" =>
        /\ \A a, b \in 1..Len(ret) : a < b => ret[a] < ret[b]
        /\ {ret[a] : a \in 1..Len(ret)} =
             {i \in 0..Len(start) : OccursAt(start, call.pattern, i)}
        /\ (Len(call.pattern) > Len(start) => ret = <<>>)

\* two occurrences that overlap are both reported
C2_Witness ==
    /\ call.op = "find_positions"
    /\ Len(call.pattern) >= 2
    /\ \E a \in 1..(Len(ret) - 1) : ret[a + 1] - ret[a] < Len(call.pattern)

\* C3: without a width, level k of bounded_reach(start, d) is exactly the set
\* of strings at shortest rewrite distance k from start, for every k <= d,
\* and there is no level above d.
C3_LevelsAreDistances ==
    (call.op = "bounded_reach" /\ call.width = None) =>
        /\ \A k \in 0..call.depth :
             LevelAt(ret, k) = Ball(rules, start, k) \ Ball(rules, start, k - 1)
        /\ DOMAIN ret \subseteq 0..call.depth

\* a search two levels deep that meets an already visited string
C3_Witness ==
    /\ call.op = "bounded_reach" /\ call.width = None /\ call.depth >= 2
    /\ 2 \in DOMAIN ret
    /\ \E x \in ret[1] : Successors(rules, x) \cap (ret[0] \union ret[1]) # {}
    /\ Cardinality(ret[2]) >= 2

\* C4: the result of bounded_reach has the keys 0..m for some m <= depth,
\* each mapped to a non-empty set; for the rules 00->0|, 0|->00 from "00"
\* with depth 2 and width 10 it is {0: {"00"}, 1: {"0|"}}.
C4_NoEmptyLevel ==
    call.op = "bounded_reach" =>
        /\ \E m \in 0..call.depth : DOMAIN ret = 0..m
        /\ \A k \in DOMAIN ret : ret[k] # {}
        /\ (/\ rules = <<Rule(Str00, Str0b), Rule(Str0b, Str00)>>
            /\ start = Str00 /\ call.depth = 2 /\ call.width = Some(10))
           => ret = (0 :> {Str00}) @@ (1 :> {Str0b})

\* the 2-cycle example: the search stops finding strings before the depth
C4_Witness ==
    /\ call.op = "bounded_reach"
    /\ rules = <<Rule(Str00, Str0b), Rule(Str0b, Str00)>>
    /\ start = Str00 /\ call.depth = 2 /\ call.width = Some(10)
    /\ DOMAIN ret = {0, 1}

\* C5: a path returned by reachable starts with start, ends with target,
\* has at most depth steps, and each consecutive pair is a one-step
\* rewrite; for start = target the path is [start].
C5_ReachablePath ==
    (call.op = "reachable" /\ ret # None) =>
        LET path == ret[1]
        IN /\ Len(path) >= 1
           /\ path[1] = start
           /\ path[Len(path)] = call.target
           /\ (start # call.target => Len(path) - 1 <= call.depth)
           /\ \A k \in 1..(Len(path) - 1) :
                path[k + 1] \in Successors(rules, path[k])
           /\ (start = call.target => path = <<start>>)

\* a path of three rewrite steps found under a width limit
C5_Witness ==
    /\ call.op = "reachable" /\ ret # None
    /\ call.width # None
    /\ Len(ret[1]) = 4


(***************************************************************************)
(* GraphBuilder: build_graph and build_incremental                         *)
(***************************************************************************)
Alphabets == {{"0", "|"}, {"0"}}

SymbolsOf(rs) ==
    UNION {Range(rs[i].left) \union Range(rs[i].right) : i \in 1..Len(rs)}

\* GraphBuilder(rules, alphabet) for a rewriting system over alphabet
BuildInit ==
    /\ alphabet \in Alphabets
    /\ rules \in {rs \in RuleLists : SymbolsOf(rs) \subseteq alphabet}
    /\ start = <<>>
    /\ call = [op |-> "init"]
    /\ ret = None
    /\ graph = EmptyGraph
    /\ tarjan = TarjanNew
    /\ NoObjects
    /\ NoPipeline

CallBuildGraph ==
    /\ call.op = "init"
    /\ \E max_length \in 0..MaxGraphLen :
        /\ call' = [op |-> "build_graph", max_length |-> max_length]
        /\ graph' = build_graph(rules, alphabet, max_length)
    /\ UNCHANGED <<objectVars, engineVars, ret, tarjan, macroVars>>

\* seed sets of one or two strings, made by the caller with the String of
\* rewriting (as orchestrator.py imports it) or of src.rewriting (as the
\* examples and tests import it)
Seeds ==
    {{[cls |-> cls, symbols |-> x] : x \in S} :
        S \in {T \in SUBSET StringsUpTo(2) : Cardinality(T) \in 1..2},
        cls \in {BuilderString, CallerString}}

CallBuildIncremental ==
    /\ call.op = "init"
    /\ \E start_strings \in Seeds, depth \in 0..MaxDepth :
        /\ call' = [op |-> "build_incremental",
                    start_strings |-> start_strings, depth |-> depth]
        /\ graph' = build_incremental(rules, start_strings, depth)
    /\ UNCHANGED <<objectVars, engineVars, ret, tarjan, macroVars>>

BuildNext ==
    \/ CallBuildGraph
    \/ CallBuildIncremental

SpecBuild == BuildInit /\ [][BuildNext]_vars

(***************************************************************************)
(* A graph built by add_vertex / add_edge, then analysed                   *)
(***************************************************************************)
GraphStrings == {Str0, Str00, Str0b, Strb0}

\* the orders in which a set can be iterated
Orders(S) ==
    {f \in [1..Cardinality(S) -> S] : \A i, j \in DOMAIN f : i # j => f[i] # f[j]}

GraphInit ==
    /\ rules = <<>>
    /\ start = <<>>
    /\ alphabet = Alphabet
    /\ call = [op |-> "init"]
    /\ ret = None
    /\ graph = EmptyGraph
    /\ tarjan = TarjanNew
    /\ NoObjects
    /\ NoPipeline

AddVertex ==
    /\ call.op = "init"
    /\ \E v \in GraphStrings : graph' = add_vertex(graph, v)
    /\ UNCHANGED <<objectVars, engineVars, call, ret, tarjan, macroVars>>

AddEdge ==
    /\ call.op = "init"
    /\ num_edges(graph) < MaxEdges
    /\ \E u, v \in GraphStrings : graph' = add_edge(graph, u, v)
    /\ UNCHANGED <<objectVars, engineVars, call, ret, tarjan, macroVars>>

\* TarjanSCC(graph).find_sccs()
FindSccs ==
    /\ call.op = "init"
    /\ \E order \in Orders(graph.vertices) :
        /\ tarjan' = find_sccs(graph, tarjan, order)
        /\ ret' = tarjan'.components
    /\ call' = [op |-> "find_sccs"]
    /\ UNCHANGED <<objectVars, engineVars, graph, macroVars>>

\* AttractorAnalyzer(graph, sccs).find_basin(attractor), attractor in self.attractors
FindBasin ==
    /\ call.op = "find_sccs"
    /\ \E i \in 1..Len(tarjan.components) :
        /\ tarjan.components[i].is_attractor
        /\ call' = [op |-> "find_basin", attractor |-> tarjan.components[i]]
        /\ ret' = find_basin(graph, tarjan.components[i])
    /\ UNCHANGED <<objectVars, engineVars, graph, tarjan, macroVars>>

\* AttractorAnalyzer(graph, sccs).classify_vertices(), sccs from find_sccs
ClassifyVertices ==
    /\ call.op = "find_sccs"
    /\ call' = [op |-> "classify_vertices"]
    /\ ret' = classify_vertices(graph, tarjan.components)
    /\ UNCHANGED <<objectVars, engineVars, graph, tarjan, macroVars>>

GraphNext ==
    \/ AddVertex
    \/ AddEdge
    \/ FindSccs
    \/ FindBasin
    \/ ClassifyVertices

SpecGraph == GraphInit /\ [][GraphNext]_vars

(***************************************************************************)
(* Claims about the graph builder and the SCC / attractor analysis         *)
(***************************************************************************)

\* the vertices reachable from the set S along at most n edges
RECURSIVE ReachFrom(_, _, _)
ReachFrom(g, S, n) ==
    IF n = 0 THEN S
    ELSE ReachFrom(g,
            S \union UNION {Range(get_neighbors(g, u)) : u \in S},
            n - 1)

\* v is reachable from u along graph edges, in zero or more steps
Reaches(g, u, v) == v \in ReachFrom(g, {u}, Cardinality(g.vertices))

\* C6: build_graph(L) has exactly the strings of length 0..L over the
\* alphabet as vertices, and u -> v is an edge iff v is a one-step rewrite
\* of u with len(v) <= L; longer successors give no edge and no vertex.
C6_BuildGraphIsGL ==
    call.op = "build_graph" =>
        /\ graph.vertices = UNION {[1..k -> alphabet] : k \in 0..call.max_length}
        /\ DOMAIN graph.edges = graph.vertices
        /\ \A u \in graph.vertices :
            /\ Range(graph.edges[u]) =
                 {v \in Successors(rules, u) : Len(v) <= call.max_length}
            /\ Len(graph.edges[u]) = Cardinality(Range(graph.edges[u]))

\* a vertex with one successor kept and another one dropped as too long
C6_Witness ==
    /\ call.op = "build_graph"
    /\ call.max_length >= 2
    /\ \E u \in graph.vertices :
        /\ graph.edges[u] # <<>>
        /\ \E v \in Successors(rules, u) :
             Len(v) > call.max_length /\ v \notin graph.vertices

\* C7: find_sccs returns non-empty, pairwise disjoint node sets whose union
\* is the vertex set, two vertices being in the same set iff each is
\* reachable from the other.
C7_TarjanPartition ==
    call.op = "find_sccs" =>
        /\ \A i \in 1..Len(ret) : ret[i].nodes # {}
        /\ \A i, j \in 1..Len(ret) : i # j => ret[i].nodes \cap ret[j].nodes = {}
        /\ UNION {ret[i].nodes : i \in 1..Len(ret)} = graph.vertices
        /\ \A u, v \in graph.vertices :
             (\E i \in 1..Len(ret) : u \in ret[i].nodes /\ v \in ret[i].nodes)
                <=> (Reaches(graph, u, v) /\ Reaches(graph, v, u))

\* a cycle component together with a singleton component on no cycle
C7_Witness ==
    /\ call.op = "find_sccs"
    /\ \E i, j \in 1..Len(ret) :
        /\ Cardinality(ret[i].nodes) >= 2
        /\ \E u \in graph.vertices :
             ret[j].nodes = {u} /\ u \notin Range(graph.edges[u])
                                /\ graph.edges[u] # <<>>

\* the 2-cycle 00 <-> 0| with the transient vertex t that has one edge, into
\* the cycle
CycleWithTransient(g, t) ==
    /\ t \in g.vertices \ {Str00, Str0b}
    /\ {Str00, Str0b} \subseteq g.vertices
    /\ g.edges[Str00] = <<Str0b>>
    /\ g.edges[Str0b] = <<Str00>>
    /\ Len(g.edges[t]) = 1
    /\ g.edges[t][1] \in {Str00, Str0b}

\* C8: after find_sccs a component is marked is_attractor iff no vertex of
\* it has an edge to a vertex outside it; for the 2-cycle 00 <-> 0| with a
\* transient vertex feeding it, the cycle is an attractor and the transient
\* singleton is not.
C8_AttractorFlag ==
    call.op = "find_sccs" =>
        /\ \A i \in 1..Len(ret) :
             ret[i].is_attractor <=>
                ~ \E u \in ret[i].nodes :
                    \E v \in Range(get_neighbors(graph, u)) : v \notin ret[i].nodes
        /\ \A t \in graph.vertices :
             CycleWithTransient(graph, t) =>
                /\ \E i \in 1..Len(ret) : ret[i] = [nodes |-> {Str00, Str0b},
                                                    is_attractor |-> TRUE]
                /\ \E i \in 1..Len(ret) : ret[i] = [nodes |-> {t},
                                                    is_attractor |-> FALSE]

\* the example graph has been analysed
C8_Witness ==
    /\ call.op = "find_sccs"
    /\ \E t \in graph.vertices : CycleWithTransient(graph, t)

\* C9: find_basin(A) is exactly the set of vertices from which some vertex
\* of A is reachable in zero or more steps, so it contains A.
C9_BasinIsBackwardClosure ==
    call.op = "find_basin" =>
        /\ ret = {u \in graph.vertices :
                    \E a \in call.attractor.nodes : Reaches(graph, u, a)}
        /\ call.attractor.nodes \subseteq ret

\* a basin with a vertex two edges away from the attractor
C9_Witness ==
    /\ call.op = "find_basin"
    /\ \E u \in ret :
        /\ u \notin call.attractor.nodes
        /\ Range(get_neighbors(graph, u)) \cap call.attractor.nodes = {}

(***************************************************************************)
(* The macro verification loop of the pipeline                             *)
(* (examples/full_pipeline_demo.py, step 5)                                *)
(***************************************************************************)
CandidateCap == 5       \* all_candidates[:5]

macro_symbols == <<"A", "B", "C", "D", "E">>

\* a decision that admits when either check passed
admissible_either(confluent, bisimilar) == confluent \/ bisimilar

\* if is_confluent and is_bisimilar:
admissible(confluent, bisimilar) == confluent /\ bisimilar

PipelineRuleLists ==
    { <<Rule(Str00, Str0b), Rule(Str0b, Str00)>>,
      <<Rule(Str00, Str0b), Rule(Str00, Strb0)>>,
      <<Rule(Str00, Str0), Rule(Str0, Str00)>> }

CandidatePatterns == {Str00, Str0b, Str0b0}

PipelineInit ==
    /\ rules \in PipelineRuleLists
    /\ L \in 2..MaxL
    /\ candidates \in UNION {[1..n -> CandidatePatterns] : n \in 0..MaxCandidates}
    /\ PipelineIdle
    /\ start = <<>>
    /\ alphabet = Alphabet
    /\ call = [op |-> "init"]
    /\ ret = None
    /\ graph = EmptyGraph
    /\ tarjan = TarjanNew
    /\ NoObjects

\* the loop takes its next candidate and builds the Macro for it
Propose ==
    /\ pc \in {"start", "admitted", "rejected"}
    /\ LET i == IF pc = "start" THEN 0 ELSE cand + 1
           macro_symbol == macro_symbols[i + 1]
           pattern == candidates[i + 1]
       IN /\ i < Len(Slice(candidates, 0, CandidateCap))
          /\ cand' = i
          /\ macro' = Macro(macro_symbol, pattern,
                            <<Rule(<<macro_symbol>>, pattern),
                              Rule(pattern, <<macro_symbol>>)>>)
    /\ pc' = "proposed"
    /\ UNCHANGED <<objectVars, engineVars, graphVars, call, ret, L, candidates, is_confluent,
                   is_bisimilar, dictionary, verified_count, failed_count, n_adds>>

\* is_confluent = LocalConfluenceChecker.check(rules, macro, search_depth=3)
CheckConfluence ==
    /\ pc = "proposed"
    /\ is_confluent' = confluence_check(rules, macro, SearchDepth)
    /\ pc' = "confluence_checked"
    /\ UNCHANGED <<objectVars, engineVars, graphVars, call, ret, L, candidates, cand, macro,
                   is_bisimilar, dictionary, verified_count, failed_count, n_adds>>

\* is_bisimilar = BoundedBisimulation.check(rules, macro, max_length=L, max_depth=3)
CheckBisimulation ==
    /\ pc = "confluence_checked"
    /\ is_bisimilar' = bisimulation_check(rules, macro, L, MaxBisimDepth)
    /\ pc' = "bisimulation_checked"
    /\ UNCHANGED <<objectVars, engineVars, graphVars, call, ret, L, candidates, cand, macro,
                   is_confluent, dictionary, verified_count, failed_count, n_adds>>

\* macro.verified = True; dictionary.add_macro(macro); verified_count += 1
Admit ==
    /\ pc = "bisimulation_checked"
    /\ admissible(is_confluent, is_bisimilar)
    /\ macro' = [macro EXCEPT !.verified = TRUE]
    /\ dictionary' = add_macro(dictionary, macro')
    /\ verified_count' = verified_count + 1
    /\ n_adds' = n_adds + 1
    /\ pc' = "admitted"
    /\ UNCHANGED <<objectVars, engineVars, graphVars, call, ret, L, candidates, cand,
                   is_confluent, is_bisimilar, failed_count>>

\* else: failed_count += 1
Reject ==
    /\ pc = "bisimulation_checked"
    /\ ~admissible(is_confluent, is_bisimilar)
    /\ failed_count' = failed_count + 1
    /\ pc' = "rejected"
    /\ UNCHANGED <<objectVars, engineVars, graphVars, call, ret, L, candidates, cand, macro,
                   is_confluent, is_bisimilar, dictionary, verified_count, n_adds>>

PipelineNext ==
    \/ Propose
    \/ CheckConfluence
    \/ CheckBisimulation
    \/ Admit
    \/ Reject

Stages ==
    {"start", "proposed", "confluence_checked", "bisimulation_checked",
     "admitted", "rejected"}

\* the loop has a statement left to execute: it is inside the body, or
\* all_candidates[:5] has a next element
HasNext ==
    \/ pc \in {"proposed", "confluence_checked", "bisimulation_checked"}
    \/ (IF pc = "start" THEN 0 ELSE cand + 1) < Len(Slice(candidates, 0, CandidateCap))

\* the loop executes its next statement.  Every step of PipelineNext changes
\* pc and is possible exactly when HasNext holds, so under [][PipelineNext]_vars
\* the steps of <<Advance>>_pc are the steps of <<PipelineNext>>_vars.
Advance ==
    /\ HasNext
    /\ pc' \in Stages

\* the loop is sequential code: it executes its next statement whenever it
\* has one
SpecPipeline == PipelineInit /\ [][PipelineNext]_vars /\ WF_pc(Advance)

(***************************************************************************)
(* Claims about the macro lifting pipeline                                 *)
(***************************************************************************)
StageRank(stage) ==
    CASE stage = "start" -> 0
      [] stage = "proposed" -> 1
      [] stage = "confluence_checked" -> 2
      [] stage = "bisimulation_checked" -> 3
      [] stage = "admitted" -> 4
      [] stage = "rejected" -> 4

C10_Step ==
    \* a candidate is created unverified
    /\ (pc' = "proposed" /\ pc # "proposed") => ~macro'.verified
    \* the stages follow one another and a candidate never goes back
    /\ pc' # pc =>
         <<pc, pc'>> \in {<<"start", "proposed">>,
                          <<"proposed", "confluence_checked">>,
                          <<"confluence_checked", "bisimulation_checked">>,
                          <<"bisimulation_checked", "admitted">>,
                          <<"bisimulation_checked", "rejected">>,
                          <<"admitted", "proposed">>,
                          <<"rejected", "proposed">>}
    /\ (pc # "start" /\ cand' = cand) => StageRank(pc') >= StageRank(pc)
    /\ (pc' = "proposed" /\ pc \in {"admitted", "rejected"}) => cand' = cand + 1
    \* the results of the checks are kept until the decision
    /\ pc \in {"confluence_checked", "bisimulation_checked"}
         => is_confluent' = is_confluent
    /\ pc = "bisimulation_checked" => is_bisimilar' = is_bisimilar
    \* admitted iff both checks returned true, with one add_macro
    /\ (pc = "bisimulation_checked" /\ pc' # pc) =>
         IF is_confluent /\ is_bisimilar
         THEN /\ pc' = "admitted"
              /\ macro'.verified
              /\ dictionary'.macros = Append(dictionary.macros, macro')
              /\ dictionary'.version = dictionary.version + 1
              /\ Len(dictionary'.history) = Len(dictionary.history) + 1
         ELSE /\ pc' = "rejected"
              /\ ~macro'.verified
              /\ dictionary' = dictionary
    \* nothing but an admission changes the dictionary
    /\ dictionary' # dictionary => (pc = "bisimulation_checked" /\ pc' = "admitted")

\* C10: every candidate macro is created unverified, is confluence-checked
\* and then bisimulation-checked, and then ends, without going back to an
\* earlier stage, either admitted (verified set, add_macro called once), iff
\* both checks returned true, or rejected with the dictionary unchanged.
C10_PipelineStages ==
    /\ [][C10_Step]_vars
    /\ (pc = "proposed") ~> (pc \in {"admitted", "rejected"})

\* a candidate admitted after an earlier one was rejected
C10_Witness ==
    /\ pc = "admitted"
    /\ failed_count >= 1
    /\ dictionary.macros = <<macro>>
    /\ macro.verified

(***************************************************************************)
(* A MacroDictionary used through add_macro and expand                     *)
(***************************************************************************)
pipelineLocals ==
    <<L, candidates, cand, macro, pc, is_confluent, is_bisimilar,
      verified_count, failed_count>>

MacroSymbols == {"A", "B"}

\* the macros handed to add_macro, as (symbol, definition, verified):
\* definitions over the base symbols, definitions that mention a macro
\* symbol (their own or another macro's), verified set by the caller or left
\* at its default
DictMacroInputs ==
    { <<"A", Str00, TRUE>>,
      <<"A", Str00, FALSE>>,
      <<"B", <<"A">>, TRUE>>,
      <<"A", <<"B">>, TRUE>>,
      <<"A", <<"A">>, TRUE>>,
      <<"A", <<"A", "0">>, TRUE>>,
      <<"A", <<"A", "A">>, TRUE>> }

\* Macro(symbol, definition, rules_add), then macro.verified = True or not
DictMacros ==
    {[Macro(i[1], i[2], <<Rule(<<i[1]>>, i[2]), Rule(i[2], <<i[1]>>)>>)
         EXCEPT !.verified = i[3]] : i \in DictMacroInputs}

ExpandStrings == {<<>>, Str0b, Str0b0, <<"A">>, <<"B", "0">>, <<"A", "B">>}

DictionaryInit ==
    /\ dictionary = NewDictionary
    /\ n_adds = 0
    /\ call = [op |-> "init"]
    /\ ret = None
    /\ L = 0
    /\ candidates = <<>>
    /\ cand = 0
    /\ macro = None
    /\ pc = "start"
    /\ is_confluent = FALSE
    /\ is_bisimilar = FALSE
    /\ verified_count = 0
    /\ failed_count = 0
    /\ rules = <<>>
    /\ start = <<>>
    /\ alphabet = Alphabet
    /\ graph = EmptyGraph
    /\ tarjan = TarjanNew
    /\ NoObjects

\* dictionary.add_macro(m)
AddMacro ==
    /\ n_adds < MaxMacros
    /\ \E m \in DictMacros :
          /\ dictionary' = add_macro(dictionary, m)
          /\ call' = [op |-> "add_macro", macro |-> m]
    /\ n_adds' = n_adds + 1
    /\ ret' = None
    /\ UNCHANGED <<objectVars, engineVars, graphVars, pipelineLocals>>

\* dictionary.expand(string): ret is the local current when expand returns
\* (or raises); call keeps the other locals.  The client calls expand once
\* between two add_macro calls.
Expand ==
    /\ call.op # "expand"
    /\ \E string \in ExpandStrings :
          LET r == expand_run(dictionary, string)
          IN /\ call' = [op |-> "expand", string |-> string,
                         iteration |-> r.iteration, changed |-> r.changed,
                         raised |-> r.raised]
             /\ ret' = r.current
    /\ UNCHANGED <<objectVars, engineVars, graphVars, pipelineLocals, dictionary, n_adds>>

DictionaryNext ==
    \/ AddMacro
    \/ Expand

SpecDictionary == DictionaryInit /\ [][DictionaryNext]_vars

(***************************************************************************)
(* Claims about the MacroDictionary                                        *)
(***************************************************************************)
DictionarySymbols(d) == {d.macros[i].symbol : i \in 1..Len(d.macros)}

IsPrefix(s, t) == Len(s) <= Len(t) /\ SubSeq(t, 1, Len(s)) = s

\* C11: after any sequence of add_macro calls every macro stored in the
\* dictionary's macros list has verified = true.
C11_AllVerified ==
    \A i \in 1..Len(dictionary.macros) : dictionary.macros[i].verified

C12_Counts ==
    /\ dictionary.version = 1 + n_adds
    /\ dictionary.version = 1 + Len(dictionary.macros)
    /\ dictionary.version = 1 + Len(dictionary.history)
    /\ \A i \in 1..Len(dictionary.history) :
          /\ dictionary.history[i].action = "add"
          /\ dictionary.history[i].version = i + 1
          /\ dictionary.history[i].symbol = dictionary.macros[i].symbol

C12_AppendOnly ==
    /\ IsPrefix(dictionary.macros, dictionary'.macros)
    /\ IsPrefix(dictionary.history, dictionary'.history)
    /\ dictionary' # dictionary =>
          /\ dictionary'.version = dictionary.version + 1
          /\ Len(dictionary'.macros) = Len(dictionary.macros) + 1
          /\ Len(dictionary'.history) = Len(dictionary.history) + 1
          /\ n_adds' = n_adds + 1

\* C12: from a fresh dictionary, after n add_macro calls version = 1 + n
\* = 1 + len(macros) = 1 + len(history); the history record at 0-based
\* index i has action 'add', version i + 2 and the symbol of macro i (here
\* 1-based index i and version i + 1); and every add_macro keeps the earlier
\* macros and history records, in order, and increases the version by one.
C12_VersionedAppendOnly == [](C12_Counts) /\ [][C12_AppendOnly]_vars

\* two add_macro calls have been made, the second for another symbol
C12_Witness ==
    /\ n_adds = 2
    /\ call.op = "add_macro"
    /\ dictionary.version = 3
    /\ dictionary.history[2].version = 3
    /\ dictionary.history[1].symbol # dictionary.history[2].symbol

\* C13: the string returned by expand contains no symbol of a macro of the
\* dictionary.
C13_NoMacroSymbolLeft ==
    (call.op = "expand" /\ ~call.raised) =>
        \A j \in 1..Len(ret) : ret[j] \notin DictionarySymbols(dictionary)

BaseOnly(s) == \A j \in 1..Len(s) : s[j] \in Alphabet

\* C14: for a dictionary built by add_macro and a string over the base symbols
\* '0' and '|', expand returns the string itself; and expanding again a
\* string that expand returned fully expanded returns it unchanged.
C14_BaseStringsFixed ==
    call.op = "expand" =>
        /\ BaseOnly(call.string) => (~call.raised /\ ret = call.string)
        /\ (~call.raised /\ BaseOnly(ret)) =>
              /\ ~expand_run(dictionary, ret).raised
              /\ expand(dictionary, ret) = ret

\* a base string expanded by a dictionary of two macros, and a string with
\* macro symbols whose expansion is a base string
C14_Witness ==
    /\ call.op = "expand"
    /\ Len(dictionary.macros) = 2
    /\ \/ call.string = Str0b0 /\ ret = Str0b0
       \/ call.string = <<"B", "0">> /\ ret = Str000

\* C15: expand terminates for every dictionary and string: it makes at most
\* 100 passes, stops as soon as a pass made no substitution, and returns
\* its current string without raising.
C15_ExpandTerminates ==
    call.op = "expand" =>
        /\ ~call.raised
        /\ call.iteration <= MaxIterations
        /\ call.changed => call.iteration = MaxIterations

(***************************************************************************)
(* The two checks of a macro, called on their own                          *)
(***************************************************************************)
CheckRuleLists ==
    PipelineRuleLists \union
    { <<Rule(Str0, <<"|">>), Rule(Str0, <<"|", "|">>), Rule(Str0, <<>>)>>,
      <<Rule(Str000, Str00), Rule(Str00, Str0b), Rule(Str0b, Strb0),
        Rule(Strb0, Str00)>> }

CheckLengths == (1..MaxL) \union {TestLengthCap}

ChecksInit ==
    /\ rules \in CheckRuleLists
    /\ \E pattern \in CandidatePatterns :
          macro = Macro("A", pattern,
                        <<Rule(<<"A">>, pattern), Rule(pattern, <<"A">>)>>)
    /\ L \in CheckLengths
    /\ call = [op |-> "init"]
    /\ ret = None
    /\ candidates = <<>>
    /\ cand = 0
    /\ pc = "start"
    /\ is_confluent = FALSE
    /\ is_bisimilar = FALSE
    /\ dictionary = NewDictionary
    /\ verified_count = 0
    /\ failed_count = 0
    /\ n_adds = 0
    /\ start = <<>>
    /\ alphabet = Alphabet
    /\ graph = EmptyGraph
    /\ tarjan = TarjanNew
    /\ NoObjects

\* LocalConfluenceChecker.check(rules, macro, search_depth)
CallConfluenceCheck ==
    /\ call.op = "init"
    /\ \E search_depth \in 1..MaxCheckDepth :
          /\ call' = [op |-> "confluence_check", depth |-> search_depth]
          /\ ret' = confluence_check(rules, macro, search_depth)
    /\ UNCHANGED <<objectVars, engineVars, graphVars, macroVars>>

\* BoundedBisimulation.check(rules, macro, max_length=L, max_depth)
CallBisimulationCheck ==
    /\ call.op = "init"
    /\ \E max_depth \in 1..MaxCheckDepth :
          /\ call' = [op |-> "bisimulation_check", depth |-> max_depth]
          /\ ret' = bisimulation_check(rules, macro, L, max_depth)
    /\ UNCHANGED <<objectVars, engineVars, graphVars, macroVars>>

ChecksNext ==
    \/ CallConfluenceCheck
    \/ CallBisimulationCheck

SpecChecks == ChecksInit /\ [][ChecksNext]_vars

(***************************************************************************)
(* Claims about the two checks                                             *)
(***************************************************************************)
\* the candidate critical strings in the order they are generated: the
\* concatenations left_i + left_j, then the left-hand sides
NumCandidates(rs) == Len(rs) * Len(rs) + Len(rs)

CandidateAt(rs, k) ==
    LET n == Len(rs)
    IN IF k <= n * n
       THEN rs[((k - 1) \div n) + 1].left \o rs[((k - 1) % n) + 1].left
       ELSE rs[k - n * n].left

\* the first match of s in the engine's order, and the first of the others
FirstMatch(rs, s, excluded) ==
    CHOOSE m \in Matches(rs, s) \ excluded :
        \A m2 \in Matches(rs, s) \ excluded : m2 = m \/ Before(m, m2)

\* all strings of the bounded-reach closure of s (depth d, width 50)
Closure(rs, s, d) ==
    LET levels == bounded_reach(rs, s, d, Some(ConfluenceWidth))
    IN UNION {LevelAt(levels, k) : k \in 0..d}

\* the first two applications to s give the same string, or strings whose
\* closures meet (vacuously so when s has fewer than two applications)
Joinable(rs, s, d) ==
    Cardinality(Matches(rs, s)) >= 2 =>
        LET m1 == FirstMatch(rs, s, {})
            m2 == FirstMatch(rs, s, {m1})
            result1 == Splice(s, rs[m1[1]], m1[2])
            result2 == Splice(s, rs[m2[1]], m2[2])
        IN result1 # result2 =>
              Closure(rs, result1, d) \cap Closure(rs, result2, d) # {}

CombinedRules == rules \o macro.rules_add

\* C16 as stated: check returns true iff every candidate critical string of
\* the combined rule list (every left_i + left_j and every left-hand side)
\* whose first two applications differ has closures with a common string.
C16_AllCandidates ==
    call.op = "confluence_check" =>
        ret = (\A k \in 1..NumCandidates(CombinedRules) :
                  Joinable(CombinedRules, CandidateAt(CombinedRules, k), call.depth))

\* C16 amended: check returns true iff every one of the first 20 candidate
\* critical strings, in generation order, whose first two applications
\* differ has closures with a common string.
C16_First20Candidates ==
    call.op = "confluence_check" =>
        ret = (\A k \in 1..Min(CriticalLimit, NumCandidates(CombinedRules)) :
                  Joinable(CombinedRules, CandidateAt(CombinedRules, k), call.depth))

\* a check over more than 20 candidates returned false
C16_Witness ==
    /\ call.op = "confluence_check"
    /\ NumCandidates(CombinedRules) > CriticalLimit
    /\ ~ret

\* the strings _generate_test_strings(max_length) produces
TestStringsOf(max_length) ==
    {Zeros(n) : n \in 1..Min(max_length, TestLengthCap - 1)}
    \union {Slice(ZeroBars(n \div 2), 0, n) : n \in 2..Min(max_length, TestLengthCap - 1)}

\* the level-d set of bounded_reach(t, d, width 30), empty when absent
LevelSet(rs, t, d) == LevelAt(bounded_reach(rs, t, d, Some(BisimWidth)), d)

\* C17: BoundedBisimulation.check returns false iff for some generated test
\* string the symmetric difference of the level-max_depth sets under the
\* original rules and under the original rules plus the macro's rules has
\* more than half as many elements as the original system's set (an absent
\* level counting as empty); otherwise it returns true.
C17_BisimulationVerdict ==
    call.op = "bisimulation_check" =>
        ret = ~(\E t \in TestStringsOf(L) :
                   LET final_old == LevelSet(rules, t, call.depth)
                       final_new == LevelSet(CombinedRules, t, call.depth)
                   IN 2 * Cardinality((final_old \ final_new)
                                          \union (final_new \ final_old))
                          > Cardinality(final_old))

\* a check that returned false although the original system has no string
\* at the last level for one of the test strings, and a check with test
\* strings up to the length cap
C17_Witness ==
    /\ call.op = "bisimulation_check"
    /\ ~ret
    /\ L = TestLengthCap
    /\ \E t \in TestStringsOf(L) : LevelSet(rules, t, call.depth) = {}

\* the first-application successor of a string that has applications
FirstSuccessor(rs, s) == all_applications(rs, s)[1].string

IsNormalForm(rs, s) == all_applications(rs, s) = <<>>

\* the trajectory x_0 = s, x_1, ... obtained by always taking the first
\* application, cut at its first normal form, at its first revisit of a
\* string (which is then its last element) or after n steps
RECURSIVE Trajectory(_, _, _)
Trajectory(rs, xs, n) ==
    LET x == xs[Len(xs)]
    IN IF \/ Len(xs) > n
          \/ IsNormalForm(rs, x)
          \/ \E j \in 1..(Len(xs) - 1) : xs[j] = x
       THEN xs
       ELSE Trajectory(rs, Append(xs, FirstSuccessor(rs, x)), n)

\* the trajectory ends by revisiting one of its strings
Revisits(xs) == \E j \in 1..(Len(xs) - 1) : xs[j] = xs[Len(xs)]

\* the strings from the first occurrence of the revisited string onward
CycleOf(xs) ==
    LET j == CHOOSE i \in 1..(Len(xs) - 1) : xs[i] = xs[Len(xs)]
    IN {xs[i] : i \in j..(Len(xs) - 1)}

\* C18 as stated: a revisit within max_steps steps gives exactly the cycle,
\* closed under the first-application successor, and a trajectory that
\* reaches a normal form, after however many steps, gives the singleton of
\* that normal form.
C18_NormalFormAlways ==
    call.op = "omega_limit" =>
        LET xs == Trajectory(rules, <<start>>, DefaultMaxSteps)
            steps == Len(xs) - 1
        IN /\ (Revisits(xs) /\ steps <= call.max_steps) =>
                  /\ ret = CycleOf(xs)
                  /\ \A s \in ret : FirstSuccessor(rules, s) \in ret
           /\ (~Revisits(xs) /\ IsNormalForm(rules, xs[Len(xs)])) =>
                  ret = {xs[Len(xs)]}

\* C18: for the trajectory obtained by always taking the first application,
\* if it revisits a string within max_steps steps omega_limit returns exactly
\* the strings visited from the first occurrence of the revisited string
\* onward, a set closed under the first-application successor; if it reaches
\* a string with no applications in fewer than max_steps steps omega_limit
\* returns the singleton of that normal form.
C18_OmegaLimit ==
    call.op = "omega_limit" =>
        LET xs == Trajectory(rules, <<start>>, DefaultMaxSteps)
            steps == Len(xs) - 1
        IN /\ (Revisits(xs) /\ steps <= call.max_steps) =>
                  /\ ret = CycleOf(xs)
                  /\ \A s \in ret : FirstSuccessor(rules, s) \in ret
           /\ (~Revisits(xs) /\ IsNormalForm(rules, xs[Len(xs)])
                             /\ steps < call.max_steps) =>
                  ret = {xs[Len(xs)]}

\* a trajectory that entered its cycle after a first string outside it and
\* revisited within the budget
C18_Witness ==
    /\ call.op = "omega_limit"
    /\ LET xs == Trajectory(rules, <<start>>, DefaultMaxSteps)
       IN /\ Revisits(xs)
          /\ Len(xs) - 1 <= call.max_steps
          /\ start \notin CycleOf(xs)
          /\ Cardinality(ret) = 2

\* the strings at BFS distance at most k from the seed set S (none for k < 0)
RECURSIVE WithinDistance(_, _, _)
WithinDistance(rs, S, k) ==
    IF k < 0 THEN {}
    ELSE IF k = 0 THEN S
    ELSE LET W == WithinDistance(rs, S, k - 1)
         IN W \union UNION {Successors(rs, v) : v \in W}

\* the symbols of a set or list of vertices of build_incremental
SymbolsIn(vs) == {v.symbols : v \in vs}

\* C19: build_incremental(seeds, depth) returns the graph whose vertices are
\* the seeds and every string produced by expanding a vertex at BFS distance
\* < depth from the seed set, each string once; every vertex at distance
\* < depth has an edge to each of its one-step successors, the vertices at
\* distance exactly depth have no outgoing edge, and every edge target is a
\* vertex.
C19_BuildIncremental ==
    call.op = "build_incremental" =>
        LET S == SymbolsIn(call.start_strings)
            inner == WithinDistance(rules, S, call.depth - 1)
            frontier == WithinDistance(rules, S, call.depth) \ inner
        IN /\ SymbolsIn(graph.vertices)
                = S \union UNION {Successors(rules, x) : x \in inner}
           /\ \A u, v \in graph.vertices : u.symbols = v.symbols => u = v
           /\ \A v \in graph.vertices :
                v.symbols \in inner =>
                    Successors(rules, v.symbols)
                        \subseteq SymbolsIn(Range(get_neighbors(graph, v)))
           /\ \A v \in graph.vertices :
                v.symbols \in frontier => get_neighbors(graph, v) = <<>>
           /\ \A v \in DOMAIN graph.edges :
                Range(graph.edges[v]) \subseteq graph.vertices

\* the positions in the SCC list of the attractors whose basin contains v
BasinsHolding(g, sccs, v) ==
    {i \in 1..Len(sccs) : sccs[i].is_attractor /\ v \in find_basin(g, sccs[i])}

\* C20: classify_vertices maps every vertex of the graph to the first
\* attractor, in the order of the SCC list handed to the AttractorAnalyzer,
\* whose basin as computed by find_basin contains the vertex, and to None
\* exactly when no attractor's basin contains it; the result has one entry
\* per vertex.
C20_ClassifyVertices ==
    call.op = "classify_vertices" =>
        /\ DOMAIN ret = graph.vertices
        /\ \A v \in graph.vertices :
            LET holding == BasinsHolding(graph, tarjan.components, v)
            IN /\ (ret[v] = None) <=> (holding = {})
               /\ holding # {} =>
                    ret[v] = Some(tarjan.components[
                                CHOOSE i \in holding : \A j \in holding : i <= j])

\* a classification in which one vertex lies in the basins of two
\* attractors and another vertex is an attractor of its own
C20_Witness ==
    /\ call.op = "classify_vertices"
    /\ \E v \in graph.vertices :
        Cardinality(BasinsHolding(graph, tarjan.components, v)) >= 2
    /\ \E u, v \in graph.vertices : ret[u] # None /\ ret[v] # None /\ ret[u] # ret[v]

(***************************************************************************)
(* The Aho-Corasick automaton: add_pattern, then build, then searches      *)
(***************************************************************************)
\* the patterns and the text of the demo of ac_automaton.py
AcPatterns == {Str00, Str0b, Str000, Strb0, Str0, <<>>}

AcText == <<"0", "0", "|", "0", "0", "0", "|", "0">>

AcTexts == StringsUpTo(MaxTextLen) \union {AcText}

AutomatonInit ==
    /\ automaton = NewAutomaton
    /\ ruleset = NewRuleSet
    /\ threads = NoThreads
    /\ rules = <<>>
    /\ start = <<>>
    /\ alphabet = Alphabet
    /\ call = [op |-> "init"]
    /\ ret = None
    /\ graph = EmptyGraph
    /\ tarjan = TarjanNew
    /\ NoPipeline

AddPattern ==
    /\ ~automaton.built
    /\ Len(automaton.patterns) < MaxPatterns
    /\ \E pattern \in AcPatterns :
        /\ automaton' = add_pattern(automaton, pattern)
        /\ call' = [op |-> "add_pattern", pattern |-> pattern]
    /\ ret' = None
    /\ UNCHANGED <<ruleset, threads, engineVars, graphVars, macroVars>>

Build ==
    /\ ~automaton.built
    /\ automaton' = build(automaton)
    /\ call' = [op |-> "build"]
    /\ ret' = None
    /\ UNCHANGED <<ruleset, threads, engineVars, graphVars, macroVars>>

Search ==
    /\ automaton.built
    /\ call.op = "build"
    /\ \E text \in AcTexts :
        /\ call' = [op |-> "search", text |-> text]
        /\ ret' = search(automaton, text)
    /\ UNCHANGED <<objectVars, engineVars, graphVars, macroVars>>

FindAllPositions ==
    /\ automaton.built
    /\ call.op = "build"
    /\ \E text \in AcTexts :
        /\ call' = [op |-> "find_all_positions", text |-> text]
        /\ ret' = find_all_positions(automaton, text)
    /\ UNCHANGED <<objectVars, engineVars, graphVars, macroVars>>

AutomatonNext ==
    \/ AddPattern
    \/ Build
    \/ Search
    \/ FindAllPositions

SpecAutomaton == AutomatonInit /\ [][AutomatonNext]_vars

\* the 0-based positions at which p occurs in text, by exhaustive scan
Occurrences(p, text) == {i \in 0..Len(text) : OccursAt(text, p, i)}

\* the elements of a finite set of integers in ascending order
RECURSIVE Ascending(_)
Ascending(S) ==
    IF S = {} THEN <<>>
    ELSE LET m == CHOOSE x \in S : \A y \in S : x <= y
         IN <<m>> \o Ascending(S \ {m})

Distinct(seq) == \A i, j \in 1..Len(seq) : i # j => seq[i] # seq[j]

\* C21: for distinct non-empty patterns added with add_pattern and followed
\* by one build, search(text) reports the pair (e, p) exactly once for every
\* pattern p and every index e at which an occurrence of p ends, and nothing
\* else, and find_all_positions(text)[p] is the list of the positions found
\* by the exhaustive scan for p; for the patterns 00, 0|, 000, |0 and the text
\* 00|000|0 the starts are 0, 3, 4 and 1, 5 and 3 and 2, 6.
C21_SearchIsExhaustiveScan ==
    Distinct(automaton.patterns) =>
        /\ call.op = "search" =>
            /\ Distinct(ret)
            /\ Range(ret) =
                 {<<i + Len(p) - 1, p>> :
                    <<i, p>> \in {x \in (0..Len(call.text)) \X Range(automaton.patterns) :
                                    OccursAt(call.text, x[2], x[1])}}
        /\ call.op = "find_all_positions" =>
            /\ DOMAIN ret = Range(automaton.patterns)
            /\ \A p \in Range(automaton.patterns) :
                 ret[p] = Ascending(Occurrences(p, call.text))
            /\ (automaton.patterns = <<Str00, Str0b, Str000, Strb0>>
                    /\ call.text = AcText) =>
                 /\ ret[Str00] = <<0, 3, 4>>
                 /\ ret[Str0b] = <<1, 5>>
                 /\ ret[Str000] = <<3>>
                 /\ ret[Strb0] = <<2, 6>>

\* the search of the worked example: 000 ends where 00 ends too
C21_Witness ==
    /\ call.op = "search"
    /\ automaton.patterns = <<Str00, Str0b, Str000, Strb0>>
    /\ call.text = AcText
    /\ \E k \in 1..(Len(ret) - 1) :
         ret[k] = <<5, Str000>> /\ ret[k + 1] = <<5, Str00>>

(***************************************************************************)
(* String.get_blocks and Rule equality called on their own                 *)
(***************************************************************************)
\* the base alphabet and a synthesized macro symbol
ExtendedAlphabet == {"0", "|", "A"}

BlockStrings == UNION {[1..k -> ExtendedAlphabet] : k \in 0..MaxLen}

\* metadata=None, metadata={} and a provenance map
Metadata == {None, Some(EmptyDict), Some([source |-> "frequency_analysis"])}

RuleValues ==
    {EngineRule(left, right, metadata) :
        left \in {Str00, Str0}, right \in {Str0, Str0b}, metadata \in Metadata}

CoreRuleValues ==
    {CoreRule(left, right, rule_id, metadata) :
        left \in {Str00, Str0}, right \in {Str0, Str0b},
        rule_id \in {None, Some(<<"r", "1">>)},
        metadata \in {EmptyDict, [reversible |-> TRUE]}}

ValueError == "ValueError"

TypesInit ==
    /\ start \in BlockStrings
    /\ rules = <<>>
    /\ alphabet = Alphabet
    /\ call = [op |-> "init"]
    /\ ret = None
    /\ graph = EmptyGraph
    /\ tarjan = TarjanNew
    /\ NoObjects
    /\ NoPipeline

\* String.from_str(start).get_blocks(), String of engine.py
CallGetBlocks ==
    /\ call.op = "init"
    /\ call' = [op |-> "get_blocks", raised |-> get_blocks(start).raised]
    /\ ret' = IF get_blocks(start).raised THEN ValueError
              ELSE get_blocks(start).blocks
    /\ UNCHANGED <<objectVars, engineVars, graphVars, macroVars>>

\* String(start).get_blocks(), String of types.py
CallCoreGetBlocks ==
    /\ call.op = "init"
    /\ call' = [op |-> "core_get_blocks", raised |-> FALSE]
    /\ ret' = core_get_blocks(start)
    /\ UNCHANGED <<objectVars, engineVars, graphVars, macroVars>>

\* a == b for two Rules of engine.py
CallRuleEq ==
    /\ call.op = "init"
    /\ \E a, b \in RuleValues :
        /\ call' = [op |-> "rule_eq", a |-> a, b |-> b]
        /\ ret' = rule_eq(a, b)
    /\ UNCHANGED <<objectVars, engineVars, graphVars, macroVars>>

\* a == b for two Rules of types.py
CallCoreRuleEq ==
    /\ call.op = "init"
    /\ \E a, b \in CoreRuleValues :
        /\ call' = [op |-> "core_rule_eq", a |-> a, b |-> b]
        /\ ret' = core_rule_eq(a, b)
    /\ UNCHANGED <<objectVars, engineVars, graphVars, macroVars>>

TypesNext ==
    \/ CallGetBlocks
    \/ CallCoreGetBlocks
    \/ CallRuleEq
    \/ CallCoreRuleEq

SpecTypes == TypesInit /\ [][TypesNext]_vars

\* C22: two Rule values are equal iff their (left, right) pairs are equal,
\* whatever their metadata and rule_id.
C22_RuleEquality ==
    call.op \in {"rule_eq", "core_rule_eq"} =>
        ret = (call.a.left = call.b.left /\ call.a.right = call.b.right)

\* the number of positions of s holding the symbol c
CountOf(s, c) == Cardinality({k \in 1..Len(s) : s[k] = c})

RECURSIVE SumOf(_)
SumOf(blocks) == IF blocks = <<>> THEN 0 ELSE Head(blocks) + SumOf(Tail(blocks))

\* C23: the length of get_blocks(s) is the number of | symbols in s plus one,
\* unless s is empty or ends in |.
C23_BlockCount ==
    (/\ call.op \in {"get_blocks", "core_get_blocks"}
     /\ ~call.raised
     /\ start # <<>>
     /\ start[Len(start)] # "|") =>
        Len(ret) = CountOf(start, "|") + 1

\* C24: get_blocks(s) returns, for every String s and also for one that
\* holds a macro symbol, a list of run lengths whose sum is the number of 0
\* symbols of s, and raises no exception.
C24_BlockSum ==
    call.op = "get_blocks" =>
        /\ ~call.raised
        /\ SumOf(ret) = CountOf(start, "0")

(***************************************************************************)
(* OverlapDetector called on a rule list                                   *)
(***************************************************************************)
\* the left-hand sides of the demos of ac_automaton.py and of the pipeline
OverlapLefts == {Str0, Str00, Str0b, Strb0, Str000, Str0b0}

OverlapRuleLists ==
    UNION {[1..n -> {Rule(left, Str0) : left \in OverlapLefts}] : n \in 0..MaxRules}

OverlapInit ==
    /\ rules \in OverlapRuleLists
    /\ start = <<>>
    /\ alphabet = Alphabet
    /\ call = [op |-> "init"]
    /\ ret = None
    /\ graph = EmptyGraph
    /\ tarjan = TarjanNew
    /\ NoObjects
    /\ NoPipeline

CallCheckMLocality ==
    /\ call.op = "init"
    /\ \E m \in 0..MaxM :
        /\ call' = [op |-> "check_m_locality", m |-> m]
        /\ ret' = check_m_locality(rules, m)
    /\ UNCHANGED <<objectVars, engineVars, graphVars, macroVars>>

CallGetMaxOverlap ==
    /\ call.op = "init"
    /\ call' = [op |-> "get_max_overlap"]
    /\ ret' = get_max_overlap(rules)
    /\ UNCHANGED <<objectVars, engineVars, graphVars, macroVars>>

OverlapNext ==
    \/ CallCheckMLocality
    \/ CallGetMaxOverlap

SpecOverlap == OverlapInit /\ [][OverlapNext]_vars

\* the maximal l >= 1 such that the last l symbols of s1 are the first l
\* symbols of s2, 0 if there is none
MaxOverlapLength(s1, s2) ==
    LET ls == {l \in 1..Min(Len(s1), Len(s2)) :
                 \A k \in 1..l : s1[Len(s1) - l + k] = s2[k]}
    IN IF ls = {} THEN 0 ELSE CHOOSE l \in ls : \A x \in ls : x <= l

\* every ordered pair of rules at distinct positions overlaps by at most m
LocalWithin(rs, m) ==
    \A i, j \in 1..Len(rs) :
        i # j => MaxOverlapLength(rs[i].left, rs[j].left) <= m

\* C25: check_m_locality(rules, m) is true iff for every ordered pair of
\* rules at distinct positions the maximal suffix/prefix overlap of their
\* left-hand sides is <= m, that is iff get_max_overlap(rules) <= m; if it is
\* true for m it is true for every larger m.
C25_MLocality ==
    /\ call.op = "check_m_locality" =>
        /\ ret = LocalWithin(rules, call.m)
        /\ ret = (get_max_overlap(rules) <= call.m)
        /\ ret => \A m \in (call.m + 1)..(MaxM + 2) : check_m_locality(rules, m)
    /\ call.op = "get_max_overlap" =>
        /\ \A i, j \in 1..Len(rules) :
             i # j => MaxOverlapLength(rules[i].left, rules[j].left) <= ret
        /\ ret = 0 \/ \E i, j \in 1..Len(rules) :
             i # j /\ MaxOverlapLength(rules[i].left, rules[j].left) = ret

\* a rule list that is 2-local and not 1-local, in which a pair of
\* left-hand sides also has a shorter overlap than its longest one
C25_Witness ==
    /\ call.op = "check_m_locality"
    /\ call.m = 1
    /\ ~ret
    /\ check_m_locality(rules, 2)
    /\ \E i, j \in 1..Len(rules) :
         /\ i # j
         /\ MaxOverlapLength(rules[i].left, rules[j].left) = 2
         /\ rules[i].left[Len(rules[i].left)] = rules[j].left[1]

\* no rule of rs has its left-hand side anywhere in s
NoRuleApplies(rs, s) == Matches(rs, s) = {}

\* C26: for a string s to which no rule applies all_applications(s) is the
\* empty list, bounded_reach(s, d, w) has only the level 0 = {s},
\* reachable(s, t, d, w) with t # s is None and omega_limit(s), with a step
\* budget of at least one, is {s}; and reachable is None whenever the target
\* lies at no rewrite distance <= depth from the start.
C26_NormalFormsAreResults ==
    /\ NoRuleApplies(rules, start) =>
        /\ call.op = "all_applications" => ret = <<>>
        /\ call.op = "bounded_reach" => ret = (0 :> {start})
        /\ (call.op = "reachable" /\ call.target # start) => ret = None
        /\ (call.op = "omega_limit" /\ call.max_steps >= 1) => ret = {start}
    /\ (call.op = "reachable" /\ call.target \notin Ball(rules, start, call.depth))
          => ret = None

\* omega_limit called with its default budget on a non-empty normal form of
\* a non-empty rule list
C26_Witness ==
    /\ call.op = "omega_limit"
    /\ call.max_steps = DefaultMaxSteps
    /\ rules # <<>>
    /\ start # <<>>
    /\ NoRuleApplies(rules, start)
    /\ ret = {start}

\* C27: reachable(start, target, depth, width) returns a path iff target
\* belongs to some level of bounded_reach(start, depth, width), for every
\* width, None included.
C27_SearchesAgree ==
    call.op = "reachable" =>
        LET levels == bounded_reach(rules, start, call.depth, call.width)
        IN (ret # None) <=> (\E k \in DOMAIN levels : call.target \in levels[k])

\* a target at the last level under a width limit that cuts applications
\* off, found by reachable; the width limit hides another string
C27_Witness ==
    /\ call.op = "reachable"
    /\ ret # None
    /\ call.width # None
    /\ call.depth >= 2
    /\ Len(ret[1]) - 1 = call.depth
    /\ \E s \in Ball(rules, start, call.depth) :
         \A k \in DOMAIN bounded_reach(rules, start, call.depth, call.width) :
            s \notin bounded_reach(rules, start, call.depth, call.width)[k]

\* C28: for every graph with at least one vertex built through add_vertex
\* and add_edge, with the SCCs of find_sccs: at least one SCC is an
\* attractor, every vertex lies in the basin of at least one attractor,
\* classify_vertices maps no vertex to None, and every vertex of an
\* attractor is classified to that attractor.
C28_EveryVertexHasAnAttractor ==
    (call.op \in {"find_sccs", "classify_vertices"} /\ graph.vertices # {}) =>
        LET sccs == tarjan.components
        IN /\ \E i \in 1..Len(sccs) : sccs[i].is_attractor
           /\ \A v \in graph.vertices : BasinsHolding(graph, sccs, v) # {}
           /\ call.op = "classify_vertices" =>
                /\ \A v \in graph.vertices : ret[v] # None
                /\ \A i \in 1..Len(sccs) :
                     sccs[i].is_attractor =>
                        \A v \in sccs[i].nodes : ret[v] = Some(sccs[i])

\* a classification of a graph with an attractor that is a cycle of two
\* vertices, an SCC that is not an attractor, and a second attractor
C28_Witness ==
    /\ call.op = "classify_vertices"
    /\ \E i, j, k \in 1..Len(tarjan.components) :
        /\ i # k
        /\ tarjan.components[i].is_attractor
        /\ Cardinality(tarjan.components[i].nodes) = 2
        /\ ~tarjan.components[j].is_attractor
        /\ tarjan.components[k].is_attractor
    /\ \A v \in graph.vertices : ret[v] # None

(***************************************************************************)
(* Concurrent add_macro calls on one MacroDictionary.  add_macro takes no  *)
(* lock; a call is three updates, and another call may run between any two *)
(* of them: self.macros.append(macro), self.version += 1,                  *)
(* self.history.append({'version': self.version, ...}).  The last one is   *)
(* two steps: the record is built first, reading self.version and then     *)
(* calling str(macro), and appended afterwards.                            *)
(***************************************************************************)
Threads == 1..MaxThreads

\* the macro thread t adds: its own symbol, one of two definitions
ThreadMacros(t) ==
    {[Macro(macro_symbols[t], definition,
            <<Rule(<<macro_symbols[t]>>, definition),
              Rule(definition, <<macro_symbols[t]>>)>>)
         EXCEPT !.verified = TRUE] : definition \in {Str00, Str0b}}

ThreadsInit ==
    /\ dictionary = NewDictionary
    /\ threads \in {f \in [Threads -> [pc : {"append"},
                                       macro : UNION {ThreadMacros(t) : t \in Threads},
                                       version : {0}, read : {0}]] :
                        \A t \in Threads : f[t].macro \in ThreadMacros(t)}
    /\ automaton = NewAutomaton
    /\ ruleset = NewRuleSet
    /\ n_adds = 0
    /\ call = [op |-> "init"]
    /\ ret = None
    /\ L = 0
    /\ candidates = <<>>
    /\ cand = 0
    /\ macro = None
    /\ pc = "start"
    /\ is_confluent = FALSE
    /\ is_bisimilar = FALSE
    /\ verified_count = 0
    /\ failed_count = 0
    /\ rules = <<>>
    /\ start = <<>>
    /\ alphabet = Alphabet
    /\ graph = EmptyGraph
    /\ tarjan = TarjanNew

threadLocals == <<automaton, ruleset, call, ret, L, candidates, cand, macro, pc,
                  is_confluent, is_bisimilar, verified_count, failed_count>>

\* self.macros.append(macro)
AppendMacro(t) ==
    /\ threads[t].pc = "append"
    /\ dictionary' = [dictionary EXCEPT !.macros = Append(@, threads[t].macro)]
    /\ threads' = [threads EXCEPT ![t].pc = "increment"]
    /\ UNCHANGED <<n_adds, threadLocals, engineVars, graphVars>>

\* self.version += 1; the thread remembers the value its increment produced
IncrementVersion(t) ==
    /\ threads[t].pc = "increment"
    /\ dictionary' = [dictionary EXCEPT !.version = @ + 1]
    /\ threads' = [threads EXCEPT ![t].pc = "record",
                                  ![t].version = dictionary.version + 1]
    /\ UNCHANGED <<n_adds, threadLocals, engineVars, graphVars>>

\* {'version': self.version, 'action': 'add', 'macro': str(macro), ...}: the
\* version is read before str(macro) runs, where the thread can be switched
\* out
BuildRecord(t) ==
    /\ threads[t].pc = "record"
    /\ threads' = [threads EXCEPT ![t].pc = "history",
                                  ![t].read = dictionary.version]
    /\ UNCHANGED <<dictionary, n_adds, threadLocals, engineVars, graphVars>>

\* self.history.append(...) of the record built before
AppendHistory(t) ==
    /\ threads[t].pc = "history"
    /\ dictionary' = [dictionary EXCEPT !.history =
            Append(@, [version |-> threads[t].read, action |-> "add",
                       macro |-> macro_str(threads[t].macro),
                       symbol |-> threads[t].macro.symbol])]
    /\ threads' = [threads EXCEPT ![t].pc = "done"]
    /\ n_adds' = n_adds + 1
    /\ UNCHANGED <<threadLocals, engineVars, graphVars>>

ThreadsNext ==
    \E t \in Threads :
        \/ AppendMacro(t)
        \/ IncrementVersion(t)
        \/ BuildRecord(t)
        \/ AppendHistory(t)

SpecThreads == ThreadsInit /\ [][ThreadsNext]_vars

\* C29: when add_macro calls on one MacroDictionary interleave at the
\* granularity of its three updates, every history record carries a version
\* no other record carries, equal to the value its own call's increment
\* produced, and once the calls are over the version is 1 + the number of
\* macros.
C29_VersionsSurviveInterleaving ==
    /\ \A i, j \in 1..Len(dictionary.history) :
         i # j => dictionary.history[i].version # dictionary.history[j].version
    /\ \A i \in 1..Len(dictionary.history) :
         \E t \in DOMAIN threads :
            /\ threads[t].pc = "done"
            /\ threads[t].macro.symbol = dictionary.history[i].symbol
            /\ threads[t].version = dictionary.history[i].version
    /\ (\A t \in DOMAIN threads : threads[t].pc = "done") =>
         dictionary.version = 1 + Len(dictionary.macros)

(***************************************************************************)
(* RuleSet (types.py): a list of rules and two indexes over it.            *)
(***************************************************************************)
\* rule in self.rules: some element equals rule
rule_in(rule, rule_list) ==
    \E k \in 1..Len(rule_list) : core_rule_eq(rule_list[k], rule)

\* list.remove(rule): the first element equal to rule is dropped
list_remove(rule_list, rule) ==
    LET k == CHOOSE k \in 1..Len(rule_list) :
                 /\ core_rule_eq(rule_list[k], rule)
                 /\ \A j \in 1..(k - 1) : ~core_rule_eq(rule_list[j], rule)
    IN SubSeq(rule_list, 1, k - 1) \o SubSeq(rule_list, k + 1, Len(rule_list))

\* d[key] = value
dict_set(d, key, value) ==
    [k \in DOMAIN d \union {key} |-> IF k = key THEN value ELSE d[k]]

\* del d[key]
dict_del(d, key) == [k \in DOMAIN d \ {key} |-> d[k]]

\* self.rules_by_left[content] of the defaultdict(list)
by_left(d, content) == IF content \in DOMAIN d THEN d[content] ELSE <<>>

\* RuleSet.add_rule
add_rule(rs, rule) ==
    [rules |-> Append(rs.rules, rule),
     rules_by_left |-> dict_set(rs.rules_by_left, rule.left,
                                Append(by_left(rs.rules_by_left, rule.left), rule)),
     rules_by_id |-> IF rule.rule_id # <<>>
                     THEN dict_set(rs.rules_by_id, rule.rule_id, rule)
                     ELSE rs.rules_by_id]

\* RuleSet.remove_rule
remove_rule(rs, rule) ==
    IF rule_in(rule, rs.rules)
    THEN [rules |-> list_remove(rs.rules, rule),
          rules_by_left |-> dict_set(rs.rules_by_left, rule.left,
                                     list_remove(rs.rules_by_left[rule.left], rule)),
          rules_by_id |-> IF rule.rule_id \in DOMAIN rs.rules_by_id
                          THEN dict_del(rs.rules_by_id, rule.rule_id)
                          ELSE rs.rules_by_id]
    ELSE rs

\* the rules handed to a RuleSet: two left sides, a rule_id left to
\* __post_init__ or given (and then shared by rules that differ), two metadata
SetRules ==
    {CoreRule(left, Str0, rule_id, metadata) :
        left \in {Str00, Str0b},
        rule_id \in {None, Some(<<"r", "1">>)},
        metadata \in {EmptyDict, [reversible |-> TRUE]}}

RuleSetInit ==
    /\ ruleset = NewRuleSet
    /\ automaton = NewAutomaton
    /\ threads = NoThreads
    /\ call = [op |-> "init"]
    /\ ret = None
    /\ dictionary = NewDictionary
    /\ n_adds = 0
    /\ L = 0
    /\ candidates = <<>>
    /\ cand = 0
    /\ macro = None
    /\ pc = "start"
    /\ is_confluent = FALSE
    /\ is_bisimilar = FALSE
    /\ verified_count = 0
    /\ failed_count = 0
    /\ rules = <<>>
    /\ start = <<>>
    /\ alphabet = Alphabet
    /\ graph = EmptyGraph
    /\ tarjan = TarjanNew

AddRule ==
    /\ Len(ruleset.rules) < MaxSetRules
    /\ \E rule \in SetRules :
        /\ ruleset' = add_rule(ruleset, rule)
        /\ call' = [op |-> "add_rule", rule |-> rule, before |-> ruleset]
    /\ UNCHANGED <<automaton, threads, ret, engineVars, graphVars, macroVars>>

RemoveRule ==
    /\ \E rule \in SetRules :
        /\ ruleset' = remove_rule(ruleset, rule)
        /\ call' = [op |-> "remove_rule", rule |-> rule, before |-> ruleset]
    /\ UNCHANGED <<automaton, threads, ret, engineVars, graphVars, macroVars>>

RuleSetNext ==
    \/ AddRule
    \/ RemoveRule

SpecRuleSet == RuleSetInit /\ [][RuleSetNext]_vars

RuleIds(rule_list) == {rule_list[k].rule_id : k \in 1..Len(rule_list)}

Lefts(rule_list) == {rule_list[k].left : k \in 1..Len(rule_list)}

\* C30: after any sequence of add_rule and remove_rule calls the indexes
\* agree with the rule list: the keys of rules_by_id are the rule_ids of the
\* rules in rules, rules_by_left[l] holds each rule as often as rules holds
\* it with left content l, and a remove_rule of a rule that is not in the set
\* changes nothing.
C30_IndexesAgree ==
    /\ DOMAIN ruleset.rules_by_id = RuleIds(ruleset.rules)
    /\ \A l \in DOMAIN ruleset.rules_by_left \union Lefts(ruleset.rules) :
         \A rule \in SetRules :
            CountOf(by_left(ruleset.rules_by_left, l), rule)
                = IF rule.left = l THEN CountOf(ruleset.rules, rule) ELSE 0
    /\ (call.op = "remove_rule" /\ ~rule_in(call.rule, call.before.rules))
         => ruleset = call.before

====
